---- MODULE Spec2Model ----
(***************************************************************************)
(* mix_link: the link-layer wire protocol of a mix network.                *)
(*                                                                         *)
(* Two Sessions (an initiator "I" and a responder "R") are bound to the    *)
(* two directions of one byte stream.  Each runs the three-message Noise   *)
(* XXhfs handshake of sync.rs/messages.rs, converts to transport mode and  *)
(* then exchanges framed commands.  The PeerAuthenticator of messages.rs   *)
(* is modelled both inside the handshake and on its own (SpecAuth).        *)
(*                                                                         *)
(* The Noise engine (snow) is a library outside the repository.  It is     *)
(* modelled symbolically: a ciphertext is a record naming the key, the     *)
(* nonce and the plaintext it was made from, and it decrypts only under    *)
(* that key and nonce and only if no byte of it was altered.               *)
(***************************************************************************)
EXTENDS Integers, Sequences, FiniteSets, TLC

(***************************************************************************)
(* Bounds of the model.                                                    *)
(***************************************************************************)
\* Commands sent (send_command, or finalize_handshake on the responder), in total.
MaxOps == 2
\* Bytes an on-path attacker alters, in total.
MaxTamper == 1
\* is_peer_valid calls on the stand-alone authenticator of SpecAuth.
MaxCalls == 2

(***************************************************************************)
(* constants.rs, and the two constants of sync.rs.                         *)
(***************************************************************************)
PROLOGUE == 1
PROLOGUE_SIZE == 1
NOISE_MESSAGE_MAX_SIZE == 65535
KEY_SIZE == 32
MAC_SIZE == 16
MAX_ADDITIONAL_DATA_SIZE == 255
AUTH_MESSAGE_SIZE == 1 + 8 + MAX_ADDITIONAL_DATA_SIZE
NOISE_HANDSHAKE_MESSAGE1_SIZE == 1600 + PROLOGUE_SIZE
NOISE_HANDSHAKE_MESSAGE2_SIZE == 1680 + AUTH_MESSAGE_SIZE
NOISE_HANDSHAKE_MESSAGE3_SIZE == 328
NOISE_MESSAGE_HEADER_SIZE == MAC_SIZE + 4
\* messages.rs imports HEADER_SIZE from constants.rs, which does not define
\* it; decrypt_message_header asserts that the header plaintext has 4 bytes.
HEADER_SIZE == 4
MAC_LEN == 16
MAX_MSG_LEN == 1048576

(***************************************************************************)
(* Bytes.  A byte string is a sequence of 0..255.  Command encodings are   *)
(* kept as [b, z]: the bytes b followed by z zero bytes, so that a large   *)
(* all-zero payload has a small representation.                            *)
(***************************************************************************)
\* A u32 that may wrap is kept as its two 16-bit halves.
U16 == 65536

U32Of(n) == [hi |-> n \div U16, lo |-> n % U16]

\* u32 wrapping subtraction
U32WrappingSub(a, b) ==
    LET d == a - b IN [hi |-> (U16 + (d \div U16)) % U16, lo |-> d % U16]

Zeros(n) == [i \in 1..n |-> 0]

\* byteorder::BigEndian::write_u32
BE32(n) ==
    << (n \div 16777216) % 256, (n \div 65536) % 256, (n \div 256) % 256, n % 256 >>

\* byteorder::BigEndian::read_u32 (the first four bytes of the slice)
ReadBE32(b) == b[1] * 16777216 + b[2] * 65536 + b[3] * 256 + b[4]

Raw(s) == [b |-> s, z |-> 0]

BLen(x) == Len(x.b) + x.z

None == <<>>
Some(x) == <<x>>
IsSome(o) == o # <<>>
Unwrap(o) == o[1]

(***************************************************************************)
(* AuthenticateMessage (messages.rs 47-78).                                *)
(***************************************************************************)
AuthenticateMessage_to_vec(am) ==
    IF Len(am.ad) > MAX_ADDITIONAL_DATA_SIZE
    THEN [ok |-> FALSE, v |-> <<>>]
    ELSE [ok |-> TRUE,
          v  |-> << Len(am.ad) % 256 >> \o am.ad
                  \o Zeros(MAX_ADDITIONAL_DATA_SIZE - Len(am.ad))
                  \o BE32(am.unix_time)]

AuthenticateMessage_from_bytes(b) ==
    IF Len(b) # AUTH_MESSAGE_SIZE
    THEN [ok |-> FALSE, v |-> [ad |-> <<>>, unix_time |-> 0]]
    ELSE [ok |-> TRUE,
          v  |-> [ad        |-> SubSeq(b, 2, 1 + b[1]),
                  unix_time |-> ReadBE32(SubSeq(b, 2 + MAX_ADDITIONAL_DATA_SIZE,
                                                5 + MAX_ADDITIONAL_DATA_SIZE))]]

(***************************************************************************)
(* PeerAuthenticator (messages.rs 92-150).  A HashMap<PublicKey, bool> is  *)
(* a function from the keys it holds to BOOLEAN.                           *)
(***************************************************************************)
Keys == {"ki", "kr", "kx"}

EmptyMap == [k \in {} |-> TRUE]

ClientAuth(k) ==
    [variant |-> "Client", peer_public_key |-> k, mix_map |-> EmptyMap,
     client_map |-> EmptyMap, from_client |-> FALSE, from_mix |-> FALSE]

ServerAuth(mix) ==
    [variant |-> "Server", peer_public_key |-> "none", mix_map |-> mix,
     client_map |-> EmptyMap, from_client |-> FALSE, from_mix |-> FALSE]

ProviderAuth(mix, client) ==
    [variant |-> "Provider", peer_public_key |-> "none", mix_map |-> mix,
     client_map |-> client, from_client |-> FALSE, from_mix |-> FALSE]

\* A membership test that reads the stored bool instead of the key's presence
MapHasTrue(m, k) == k \in DOMAIN m /\ m[k]

\* HashMap::get(k).is_some()
MapHas(m, k) == k \in DOMAIN m

\* A Provider that looks in the client map before the mix map
is_peer_valid_client_first(a, peer_credentials) ==
    CASE a.variant = "Client" ->
           [a |-> a, ok |-> a.peer_public_key = peer_credentials.public_key]
      [] a.variant = "Server" ->
           [a |-> a, ok |-> MapHas(a.mix_map, peer_credentials.public_key)]
      [] OTHER ->
           IF MapHas(a.client_map, peer_credentials.public_key)
           THEN [a |-> [a EXCEPT !.from_client = TRUE], ok |-> TRUE]
           ELSE IF MapHas(a.mix_map, peer_credentials.public_key)
           THEN [a |-> [a EXCEPT !.from_mix = TRUE], ok |-> TRUE]
           ELSE [a |-> a, ok |-> FALSE]

is_peer_valid(a, peer_credentials) ==
    CASE a.variant = "Client" ->
           [a |-> a, ok |-> a.peer_public_key = peer_credentials.public_key]
      [] a.variant = "Server" ->
           [a |-> a, ok |-> MapHas(a.mix_map, peer_credentials.public_key)]
      [] OTHER ->
           IF MapHas(a.mix_map, peer_credentials.public_key)
           THEN [a |-> [a EXCEPT !.from_mix = TRUE], ok |-> TRUE]
           ELSE IF MapHas(a.client_map, peer_credentials.public_key)
           THEN [a |-> [a EXCEPT !.from_client = TRUE], ok |-> TRUE]
           ELSE [a |-> a, ok |-> FALSE]

is_peer_client(a) ==
    IF a.variant = "Provider" THEN a.from_client ELSE FALSE

(***************************************************************************)
(* The Noise engine.  A message on the wire is a record                    *)
(*   kind      "hs1" | "hs2" | "hs3" | "len" | "body"                      *)
(*   len       its length in bytes                                         *)
(*   prologue  the byte in front of handshake message 1                    *)
(*   s         the static key a handshake message carries                  *)
(*   key, n    the key and nonce its payload is sealed under               *)
(*   pt        the payload                                                 *)
(*   ok        FALSE once a byte of it has been altered in flight          *)
(* Garbage stands for bytes that are not one whole message.                *)
(***************************************************************************)
HsKey(h) == [h |-> h, dir |-> "hs", gen |-> 0]

Garbage ==
    [kind |-> "garbage", len |-> 0, prologue |-> 0, s |-> "none",
     key |-> [h |-> <<>>, dir |-> "none", gen |-> 0], n |-> 0,
     pt |-> Raw(<<>>), ok |-> FALSE]

\* Builder::build_initiator / build_responder: the local static key, the
\* remote static key when one is configured, the prologue mixed into h.
NoiseBuild(initiator, local, remote) ==
    [initiator |-> initiator, pos |-> 0, s |-> local, rs |-> remote,
     h |-> <<"prologue">>]

NoiseMyTurn(hs) ==
    IF hs.initiator THEN hs.pos \in {0, 2} ELSE hs.pos = 1

NoiseKind(pos) ==
    CASE pos = 0 -> "hs1" [] pos = 1 -> "hs2" [] pos = 2 -> "hs3" [] OTHER -> "none"

\* Bytes of a handshake message besides its payload: e, e1 in message 1;
\* e, ekem1, s and two tags in message 2; s and two tags in message 3.
NoiseOverhead(pos) ==
    CASE pos = 0 -> 1600
      [] pos = 1 -> 1680
      [] OTHER   -> KEY_SIZE + MAC_SIZE + MAC_SIZE

\* The length HandshakeState::write_message reports.  The engine is not
\* part of the repository: the length is an input, either the one the
\* Noise message layout gives for the payload or the one constants.rs
\* sizes the message for (a payload of AUTH_MESSAGE_SIZE bytes).
NoiseWriteLens(pos, payload) ==
    IF pos = 0
    THEN {NoiseOverhead(pos) + Len(payload)}
    ELSE {NoiseOverhead(pos) + Len(payload), NoiseOverhead(pos) + AUTH_MESSAGE_SIZE}

\* HandshakeState::write_message
noise_write(hs, payload, len) ==
    IF ~NoiseMyTurn(hs) \/ hs.pos > 2
    THEN [ok |-> FALSE, hs |-> hs, msg |-> Garbage]
    ELSE [ok  |-> TRUE,
          hs  |-> [hs EXCEPT !.pos = hs.pos + 1,
                             !.h = Append(hs.h, NoiseKind(hs.pos))],
          msg |-> [kind |-> NoiseKind(hs.pos), len |-> len, prologue |-> 0,
                   s |-> IF hs.pos = 0 THEN "none" ELSE hs.s,
                   key |-> HsKey(hs.h), n |-> 0, pt |-> Raw(payload),
                   ok |-> TRUE]]

\* HandshakeState::read_message into a buffer of bufsize bytes.  Message 1
\* is not sealed: altered bytes are accepted and change the transcript.
\* Messages 2 and 3 are sealed under the transcript.
noise_read(hs, m, bufsize) ==
    IF NoiseMyTurn(hs) \/ hs.pos > 2
    THEN [ok |-> FALSE, hs |-> hs, payload |-> <<>>]
    ELSE IF hs.pos = 0
    THEN [ok |-> TRUE,
          hs |-> [hs EXCEPT !.pos = 1,
                            !.h = Append(hs.h, IF m.kind = "hs1" /\ m.ok
                                               THEN "hs1" ELSE "altered")],
          payload |-> <<>>]
    ELSE IF m.kind = NoiseKind(hs.pos) /\ m.ok /\ m.key = HsKey(hs.h)
            /\ BLen(m.pt) <= bufsize
    THEN [ok |-> TRUE,
          hs |-> [hs EXCEPT !.pos = hs.pos + 1, !.rs = m.s,
                            !.h = Append(hs.h, NoiseKind(hs.pos))],
          payload |-> m.pt.b]
    ELSE [ok |-> FALSE, hs |-> hs, payload |-> <<>>]

\* HandshakeState::into_transport_mode: only once the pattern is finished.
\* The initiator sends under the first cipher and receives under the second.
noise_into_transport_mode(hs) ==
    IF hs.pos # 3
    THEN [ok |-> FALSE, ts |-> None]
    ELSE LET c2s == [key |-> [h |-> hs.h, dir |-> "c2s", gen |-> 0], n |-> 0]
             s2c == [key |-> [h |-> hs.h, dir |-> "s2c", gen |-> 0], n |-> 0]
         IN  [ok |-> TRUE,
              ts |-> Some(IF hs.initiator THEN [tx |-> c2s, rx |-> s2c]
                                          ELSE [tx |-> s2c, rx |-> c2s])]

\* TransportState::write_message
transport_write(ts, kind, payload) ==
    IF BLen(payload) + MAC_SIZE > NOISE_MESSAGE_MAX_SIZE
    THEN [ok |-> FALSE, ts |-> ts, msg |-> Garbage]
    ELSE [ok  |-> TRUE,
          ts  |-> [ts EXCEPT !.tx.n = ts.tx.n + 1],
          msg |-> [kind |-> kind, len |-> BLen(payload) + MAC_SIZE,
                   prologue |-> 0, s |-> "none", key |-> ts.tx.key,
                   n |-> ts.tx.n, pt |-> payload, ok |-> TRUE]]

\* TransportState::read_message into a buffer of bufsize bytes.  bump:
\* whether the engine linked in counts a message that fails to decrypt
\* (releases of the engine differ in this).
transport_read(ts, m, bufsize, bump) ==
    IF m.ok /\ m.key = ts.rx.key /\ m.n = ts.rx.n /\ BLen(m.pt) <= bufsize
    THEN [ok |-> TRUE, ts |-> [ts EXCEPT !.rx.n = ts.rx.n + 1], payload |-> m.pt]
    ELSE [ok |-> FALSE,
          ts |-> IF bump THEN [ts EXCEPT !.rx.n = ts.rx.n + 1] ELSE ts,
          payload |-> Raw(<<>>)]

\* TransportState::rekey_outgoing / rekey_incoming: a new key, the nonce kept
noise_rekey_outgoing(ts) == [ts EXCEPT !.tx.key.gen = ts.tx.key.gen + 1]

noise_rekey_incoming(ts) == [ts EXCEPT !.rx.key.gen = ts.rx.key.gen + 1]

(***************************************************************************)
(* MessageBuilder (messages.rs 174-455).  Every method is an operator from *)
(* the builder (and its inputs) to the builder afterwards, the result r    *)
(* ("Ok", an error's name, or "panic") and the message produced.           *)
(***************************************************************************)
Res(b, r, out) == [b |-> b, r |-> r, out |-> out]

\* MessageBuilder::new
\* MessageBuilder::new asking every role for the peer's key
MessageBuilder_new_keyed(config, is_initiator) ==
    IF config.peer_public_key = "none"
    THEN [r |-> "NoPeerKeyError", b |-> None]
    ELSE [r |-> "Ok",
          b |-> Some([handshake_state |->
                          Some(NoiseBuild(is_initiator, config.authentication_key,
                                          IF is_initiator THEN config.peer_public_key
                                                          ELSE "none")),
                      transport_state  |-> None,
                      state            |-> "Init",
                      additional_data  |-> config.additional_data,
                      authenticator    |-> config.authenticator,
                      is_initiator     |-> is_initiator,
                      clock_skew       |-> U32Of(0),
                      peer_credentials |-> None])]

MessageBuilder_new(config, is_initiator) ==
    IF is_initiator /\ config.peer_public_key = "none"
    THEN [r |-> "NoPeerKeyError", b |-> None]
    ELSE [r |-> "Ok",
          b |-> Some([handshake_state |->
                          Some(NoiseBuild(is_initiator, config.authentication_key,
                                          IF is_initiator THEN config.peer_public_key
                                                          ELSE "none")),
                      transport_state  |-> None,
                      state            |-> "Init",
                      additional_data  |-> config.additional_data,
                      authenticator    |-> config.authenticator,
                      is_initiator     |-> is_initiator,
                      clock_skew       |-> U32Of(0),
                      peer_credentials |-> None])]

\* PeerCredentials::wipe
PeerCredentials_wipe(c) == [c EXCEPT !.additional_data = <<>>]

\* a wipe that wipes the peer's credentials too
wipe_credentials(b) ==
    [b EXCEPT !.additional_data = <<>>, !.clock_skew = U32Of(0),
              !.peer_credentials =
                  IF b.peer_credentials = <<>> THEN <<>>
                  ELSE << PeerCredentials_wipe(b.peer_credentials[1]) >>]

\* a wipe that also forgets what the authenticator learnt about the peer
wipe_authenticator(b) ==
    [b EXCEPT !.additional_data = <<>>, !.clock_skew = U32Of(0),
              !.authenticator.from_client = FALSE,
              !.authenticator.from_mix = FALSE]

wipe(b) == [b EXCEPT !.additional_data = <<>>, !.clock_skew = U32Of(0)]

\* rekey_incoming that leaves the key as it is
rekey_incoming_noop(b) == b

rekey_incoming(b) ==
    [b EXCEPT !.transport_state = Some(noise_rekey_incoming(Unwrap(b.transport_state)))]

\* rekey_outgoing that rekeys the incoming cipher as well
rekey_outgoing_both(b) ==
    [b EXCEPT !.transport_state =
        Some(noise_rekey_incoming(noise_rekey_outgoing(Unwrap(b.transport_state))))]

rekey_outgoing(b) ==
    [b EXCEPT !.transport_state = Some(noise_rekey_outgoing(Unwrap(b.transport_state)))]

\* len: the length the Noise engine reports for the message it wrote
client_handshake1(b, len) ==
    IF ~IsSome(b.handshake_state) THEN Res(b, "panic", Garbage) ELSE
    LET w == noise_write(Unwrap(b.handshake_state), <<>>, len) IN
    IF ~w.ok THEN Res(b, "Noise1WriteError", Garbage) ELSE
    LET b1 == [b EXCEPT !.handshake_state = Some(w.hs)] IN
    \* copy_from_slice panics unless the lengths agree
    IF len # NOISE_HANDSHAKE_MESSAGE1_SIZE - PROLOGUE_SIZE
    THEN Res(b1, "panic", Garbage)
    ELSE Res(b1, "Ok", [w.msg EXCEPT !.prologue = PROLOGUE,
                                     !.len = NOISE_HANDSHAKE_MESSAGE1_SIZE])

\* A transition that skips a state
sent_client_handshake1_skip(b) == [b EXCEPT !.state = "ReceivedServerHandshake1"]

sent_client_handshake1(b) == [b EXCEPT !.state = "SentClientHandshake1"]

sent_client_handshake2(b) == [b EXCEPT !.state = "DataTransfer"]

\* The payload the engine wrote into the zeroed buffer raw_auth
RawAuth(payload) == payload \o Zeros(AUTH_MESSAGE_SIZE - Len(payload))

\* received_server_handshake1 without the authenticator's verdict
received_server_handshake1_unchecked(b, message, now, overflow_checks) ==
    IF ~IsSome(b.handshake_state) THEN Res(b, "panic", Garbage) ELSE
    LET rd == noise_read(Unwrap(b.handshake_state), message, AUTH_MESSAGE_SIZE) IN
    IF ~rd.ok THEN Res(b, "Noise2ReadError", Garbage) ELSE
    LET b1        == [b EXCEPT !.handshake_state = Some(rd.hs)]
        peer_auth == AuthenticateMessage_from_bytes(RawAuth(rd.payload))
    IN
    IF ~peer_auth.ok THEN Res(b1, "AuthenticationError", Garbage) ELSE
    IF rd.hs.rs = "none" THEN Res(b1, "FailedToGetRemoteStatic", Garbage) ELSE
    LET creds == [additional_data |-> peer_auth.v.ad, public_key |-> rd.hs.rs]
        b2    == [b1 EXCEPT !.peer_credentials = Some(creds)]
        v     == is_peer_valid(b2.authenticator, creds)
        b3    == [b2 EXCEPT !.authenticator = v.a]
    IN
    IF now < peer_auth.v.unix_time /\ overflow_checks
    THEN Res(b3, "panic", Garbage)
    ELSE Res([b3 EXCEPT !.clock_skew = U32WrappingSub(now, peer_auth.v.unix_time),
                        !.state = "ReceivedServerHandshake1"],
             "Ok", Garbage)

\* now: SystemTime::now() as u32.  overflow_checks: whether the build
\* panics on integer overflow (a debug build) or wraps (a release build).
received_server_handshake1(b, message, now, overflow_checks) ==
    IF ~IsSome(b.handshake_state) THEN Res(b, "panic", Garbage) ELSE
    LET rd == noise_read(Unwrap(b.handshake_state), message, AUTH_MESSAGE_SIZE) IN
    IF ~rd.ok THEN Res(b, "Noise2ReadError", Garbage) ELSE
    LET b1        == [b EXCEPT !.handshake_state = Some(rd.hs)]
        peer_auth == AuthenticateMessage_from_bytes(RawAuth(rd.payload))
    IN
    IF ~peer_auth.ok THEN Res(b1, "AuthenticationError", Garbage) ELSE
    IF rd.hs.rs = "none" THEN Res(b1, "FailedToGetRemoteStatic", Garbage) ELSE
    LET creds == [additional_data |-> peer_auth.v.ad, public_key |-> rd.hs.rs]
        b2    == [b1 EXCEPT !.peer_credentials = Some(creds)]
        v     == is_peer_valid(b2.authenticator, creds)
        b3    == [b2 EXCEPT !.authenticator = v.a]
    IN
    IF ~v.ok THEN Res(b3, "AuthenticationError", Garbage) ELSE
    IF now < peer_auth.v.unix_time /\ overflow_checks
    THEN Res(b3, "panic", Garbage)
    ELSE Res([b3 EXCEPT !.clock_skew = U32WrappingSub(now, peer_auth.v.unix_time),
                        !.state = "ReceivedServerHandshake1"],
             "Ok", Garbage)

\* client_handshake2 that sends a timestamp
client_handshake2_stamped(b, len) ==
    IF ~IsSome(b.handshake_state) THEN Res(b, "panic", Garbage) ELSE
    LET our_auth == AuthenticateMessage_to_vec([ad |-> b.additional_data,
                                                unix_time |-> 1]) IN
    IF ~our_auth.ok THEN Res(b, "panic", Garbage) ELSE
    LET w == noise_write(Unwrap(b.handshake_state), our_auth.v, len) IN
    IF ~w.ok THEN Res(b, "Noise3WriteError", Garbage) ELSE
    LET b1 == [b EXCEPT !.handshake_state = Some(w.hs)] IN
    IF len # NOISE_HANDSHAKE_MESSAGE3_SIZE
    THEN Res(b1, "panic", Garbage)
    ELSE Res(b1, "Ok", w.msg)

client_handshake2(b, len) ==
    IF ~IsSome(b.handshake_state) THEN Res(b, "panic", Garbage) ELSE
    LET our_auth == AuthenticateMessage_to_vec([ad |-> b.additional_data,
                                                unix_time |-> 0]) IN
    IF ~our_auth.ok THEN Res(b, "panic", Garbage) ELSE
    LET w == noise_write(Unwrap(b.handshake_state), our_auth.v, len) IN
    IF ~w.ok THEN Res(b, "Noise3WriteError", Garbage) ELSE
    LET b1 == [b EXCEPT !.handshake_state = Some(w.hs)] IN
    \* assert_eq!(NOISE_HANDSHAKE_MESSAGE3_SIZE, _len)
    IF len # NOISE_HANDSHAKE_MESSAGE3_SIZE
    THEN Res(b1, "panic", Garbage)
    ELSE Res(b1, "Ok", w.msg)

\* The first byte of the 1601 bytes read: the byte in front of message 1
FirstByte(message) == message.prologue

\* received_client_handshake1 that looks at the prologue byte only after
\* the Noise engine has read the message
received_client_handshake1_late(b, message, now, len) ==
    IF b.state # "Init" THEN Res(b, "InvalidStateError", Garbage) ELSE
    IF ~IsSome(b.handshake_state) THEN Res(b, "panic", Garbage) ELSE
    LET rd == noise_read(Unwrap(b.handshake_state), message,
                         NOISE_HANDSHAKE_MESSAGE1_SIZE) IN
    IF ~rd.ok THEN Res(b, "Noise1ReadError", Garbage) ELSE
    LET b1 == [b EXCEPT !.handshake_state = Some(rd.hs)] IN
    IF FirstByte(message) # PROLOGUE
    THEN Res(b1, "PrologueMismatchError", Garbage) ELSE
    LET b2 == [b1 EXCEPT !.state = "ReceivedClientHandshake1"]
        our_auth == AuthenticateMessage_to_vec([ad |-> b.additional_data,
                                                unix_time |-> now])
    IN
    IF ~our_auth.ok THEN Res(b2, "panic", Garbage) ELSE
    LET w == noise_write(rd.hs, our_auth.v, len) IN
    IF ~w.ok THEN Res(b2, "Noise2WriteError", Garbage) ELSE
    LET b3 == [b2 EXCEPT !.handshake_state = Some(w.hs)] IN
    IF len # NOISE_HANDSHAKE_MESSAGE2_SIZE
    THEN Res(b3, "panic", Garbage)
    ELSE Res(b3, "Ok", w.msg)

received_client_handshake1(b, message, now, len) ==
    IF b.state # "Init" THEN Res(b, "InvalidStateError", Garbage) ELSE
    IF FirstByte(message) # PROLOGUE
    THEN Res(b, "PrologueMismatchError", Garbage) ELSE
    IF ~IsSome(b.handshake_state) THEN Res(b, "panic", Garbage) ELSE
    LET rd == noise_read(Unwrap(b.handshake_state), message,
                         NOISE_HANDSHAKE_MESSAGE1_SIZE) IN
    IF ~rd.ok THEN Res(b, "Noise1ReadError", Garbage) ELSE
    LET b1 == [b EXCEPT !.handshake_state = Some(rd.hs),
                        !.state = "ReceivedClientHandshake1"]
        our_auth == AuthenticateMessage_to_vec([ad |-> b.additional_data,
                                                unix_time |-> now])
    IN
    IF ~our_auth.ok THEN Res(b1, "panic", Garbage) ELSE
    LET w == noise_write(rd.hs, our_auth.v, len) IN
    IF ~w.ok THEN Res(b1, "Noise2WriteError", Garbage) ELSE
    LET b2 == [b1 EXCEPT !.handshake_state = Some(w.hs)] IN
    \* assert_eq!(NOISE_HANDSHAKE_MESSAGE2_SIZE, _len)
    IF len # NOISE_HANDSHAKE_MESSAGE2_SIZE
    THEN Res(b2, "panic", Garbage)
    ELSE Res(b2, "Ok", w.msg)

sent_server_handshake1(b) == [b EXCEPT !.state = "SentServerHandshake1"]

\* received_client_handshake2 without the authenticator's verdict
received_client_handshake2_unchecked(b, message) ==
    IF b.state # "SentServerHandshake1" THEN Res(b, "InvalidStateError", Garbage) ELSE
    IF ~IsSome(b.handshake_state) THEN Res(b, "panic", Garbage) ELSE
    LET rd == noise_read(Unwrap(b.handshake_state), message, AUTH_MESSAGE_SIZE) IN
    IF ~rd.ok THEN Res(b, "Noise3ReadError", Garbage) ELSE
    LET b1        == [b EXCEPT !.handshake_state = Some(rd.hs)]
        peer_auth == AuthenticateMessage_from_bytes(RawAuth(rd.payload))
    IN
    IF ~peer_auth.ok \/ rd.hs.rs = "none" THEN Res(b1, "panic", Garbage) ELSE
    LET creds == [additional_data |-> peer_auth.v.ad, public_key |-> rd.hs.rs]
        b2    == [b1 EXCEPT !.peer_credentials = Some(creds)]
        v     == is_peer_valid(b2.authenticator, creds)
        b3    == [b2 EXCEPT !.authenticator = v.a]
    IN  Res([b3 EXCEPT !.state = "DataTransfer"], "Ok", Garbage)

\* received_client_handshake2 without the check of the state
received_client_handshake2_unguarded(b, message) ==
    IF ~IsSome(b.handshake_state) THEN Res(b, "panic", Garbage) ELSE
    LET rd == noise_read(Unwrap(b.handshake_state), message, AUTH_MESSAGE_SIZE) IN
    IF ~rd.ok THEN Res(b, "Noise3ReadError", Garbage) ELSE
    LET b1        == [b EXCEPT !.handshake_state = Some(rd.hs)]
        peer_auth == AuthenticateMessage_from_bytes(RawAuth(rd.payload))
    IN
    IF ~peer_auth.ok \/ rd.hs.rs = "none" THEN Res(b1, "panic", Garbage) ELSE
    LET creds == [additional_data |-> peer_auth.v.ad, public_key |-> rd.hs.rs]
        b2    == [b1 EXCEPT !.peer_credentials = Some(creds)]
        v     == is_peer_valid(b2.authenticator, creds)
        b3    == [b2 EXCEPT !.authenticator = v.a]
    IN
    IF ~v.ok THEN Res(b3, "AuthenticationError", Garbage)
    ELSE Res([b3 EXCEPT !.state = "DataTransfer"], "Ok", Garbage)

received_client_handshake2(b, message) ==
    IF b.state # "SentServerHandshake1" THEN Res(b, "InvalidStateError", Garbage) ELSE
    IF ~IsSome(b.handshake_state) THEN Res(b, "panic", Garbage) ELSE
    LET rd == noise_read(Unwrap(b.handshake_state), message, AUTH_MESSAGE_SIZE) IN
    IF ~rd.ok THEN Res(b, "Noise3ReadError", Garbage) ELSE
    LET b1        == [b EXCEPT !.handshake_state = Some(rd.hs)]
        peer_auth == AuthenticateMessage_from_bytes(RawAuth(rd.payload))
    IN
    IF ~peer_auth.ok \/ rd.hs.rs = "none" THEN Res(b1, "panic", Garbage) ELSE
    LET creds == [additional_data |-> peer_auth.v.ad, public_key |-> rd.hs.rs]
        b2    == [b1 EXCEPT !.peer_credentials = Some(creds)]
        v     == is_peer_valid(b2.authenticator, creds)
        b3    == [b2 EXCEPT !.authenticator = v.a]
    IN
    IF ~v.ok THEN Res(b3, "AuthenticationError", Garbage)
    ELSE Res([b3 EXCEPT !.state = "DataTransfer"], "Ok", Garbage)

\* into_transport_mode that does not wait for the end of the handshake
into_transport_mode_early(b) ==
    IF ~IsSome(b.handshake_state) THEN [r |-> "panic", b |-> None] ELSE
    LET t == noise_into_transport_mode([Unwrap(b.handshake_state) EXCEPT !.pos = 3]) IN
    [r |-> "Ok",
     b |-> Some([b EXCEPT !.handshake_state = None, !.transport_state = t.ts])]

\* MessageBuilder::into_transport_mode consumes the builder: on an error
\* (or a panic) no builder is left.
into_transport_mode(b) ==
    IF ~IsSome(b.handshake_state) THEN [r |-> "panic", b |-> None] ELSE
    LET t == noise_into_transport_mode(Unwrap(b.handshake_state)) IN
    IF ~t.ok THEN [r |-> "HandshakeError", b |-> None]
    ELSE [r |-> "Ok",
          b |-> Some([b EXCEPT !.handshake_state = None,
                               !.transport_state = t.ts])]

\* encrypt_message whose length frame announces the plaintext's length
encrypt_message_no_mac(b, message) ==
    LET ct_len == MAC_SIZE + BLen(message) IN
    IF ct_len > NOISE_MESSAGE_MAX_SIZE THEN Res(b, "InvalidMessageSize", <<>>) ELSE
    IF ~IsSome(b.transport_state) THEN Res(b, "panic", <<>>) ELSE
    LET ct_hdr == Raw(BE32(BLen(message)))
        w1     == transport_write(Unwrap(b.transport_state), "len", ct_hdr)
    IN
    IF ~w1.ok THEN Res(b, "EncryptFail", <<>>) ELSE
    LET w2 == transport_write(w1.ts, "body", message) IN
    IF ~w2.ok
    THEN Res([b EXCEPT !.transport_state = Some(w1.ts)], "EncryptFail", <<>>)
    ELSE Res([b EXCEPT !.transport_state = Some(w2.ts)], "Ok", <<w1.msg, w2.msg>>)

\* encrypt_message without its size check
encrypt_message_unchecked(b, message) ==
    LET ct_len == MAC_SIZE + BLen(message) IN
    IF ~IsSome(b.transport_state) THEN Res(b, "panic", <<>>) ELSE
    LET ct_hdr == Raw(BE32(ct_len))
        w1     == transport_write(Unwrap(b.transport_state), "len", ct_hdr)
    IN
    IF ~w1.ok THEN Res(b, "EncryptFail", <<>>) ELSE
    LET w2 == transport_write(w1.ts, "body", message) IN
    IF ~w2.ok
    THEN Res([b EXCEPT !.transport_state = Some(w1.ts)], "EncryptFail", <<>>)
    ELSE Res([b EXCEPT !.transport_state = Some(w2.ts)], "Ok", <<w1.msg, w2.msg>>)

\* The length frame followed by the body frame: out is the pair
encrypt_message(b, message) ==
    LET ct_len == MAC_SIZE + BLen(message) IN
    IF ct_len > NOISE_MESSAGE_MAX_SIZE THEN Res(b, "InvalidMessageSize", <<>>) ELSE
    IF ~IsSome(b.transport_state) THEN Res(b, "panic", <<>>) ELSE
    LET ct_hdr == Raw(BE32(ct_len))
        w1     == transport_write(Unwrap(b.transport_state), "len", ct_hdr)
    IN
    IF ~w1.ok THEN Res(b, "EncryptFail", <<>>) ELSE
    LET w2 == transport_write(w1.ts, "body", message) IN
    IF ~w2.ok
    THEN Res([b EXCEPT !.transport_state = Some(w1.ts)], "EncryptFail", <<>>)
    ELSE Res([b EXCEPT !.transport_state = Some(w2.ts)], "Ok", <<w1.msg, w2.msg>>)

\* out is the decrypted length
decrypt_message_header(b, message, bump) ==
    IF ~IsSome(b.transport_state) THEN Res(b, "panic", 0) ELSE
    LET rd == transport_read(Unwrap(b.transport_state), message, HEADER_SIZE, bump)
        b1 == [b EXCEPT !.transport_state = Some(rd.ts)]
    IN
    IF ~rd.ok THEN Res(b1, "DecryptFail", 0) ELSE
    \* assert_eq!(x, 4)
    IF BLen(rd.payload) # 4 THEN Res(b1, "panic", 0)
    ELSE Res(b1, "Ok", ReadBE32(rd.payload.b \o Zeros(rd.payload.z)))

\* out is the plaintext
decrypt_message(b, message, bump) ==
    IF ~IsSome(b.transport_state) THEN Res(b, "panic", Raw(<<>>)) ELSE
    LET rd == transport_read(Unwrap(b.transport_state), message,
                             NOISE_MESSAGE_MAX_SIZE, bump)
        b1 == [b EXCEPT !.transport_state = Some(rd.ts)]
    IN
    IF ~rd.ok THEN Res(b1, "DecryptFail", Raw(<<>>))
    ELSE Res(b1, "Ok", rd.payload)

(***************************************************************************)
(* Command (commands.rs, which is not among the sources: the layout is     *)
(* the one the specification gives).  tag, three zero bytes, the body      *)
(* length as a big-endian u32, the body.                                   *)
(***************************************************************************)
NoOp == [name |-> "NoOp", sequence |-> 0, payload |-> 0]
Disconnect == [name |-> "Disconnect", sequence |-> 0, payload |-> 0]
MessageEmpty(seq) == [name |-> "MessageEmpty", sequence |-> seq, payload |-> 0]
\* a SendPacket whose payload is n zero bytes
SendPacket(n) == [name |-> "SendPacket", sequence |-> 0, payload |-> n]
NoCommand == [name |-> "none", sequence |-> 0, payload |-> 0]
RetrieveMessage(seq) == [name |-> "RetrieveMessage", sequence |-> seq, payload |-> 0]
\* a Message whose payload is n zero bytes
Message(hint, seq, n) ==
    [name |-> "Message", sequence |-> seq, payload |-> n, queue_size_hint |-> hint]
\* a MessageAck with the 16-byte SURB id and a payload of n zero bytes
MessageAck(hint, seq, id, n) ==
    [name |-> "MessageAck", sequence |-> seq, payload |-> n,
     queue_size_hint |-> hint, id |-> id]
\* epoch: a u64 as its two 32-bit halves
GetConsensus(epoch) ==
    [name |-> "GetConsensus", sequence |-> 0, payload |-> 0, epoch |-> epoch]
\* a Consensus whose payload is n zero bytes
Consensus(error_code, n) ==
    [name |-> "Consensus", sequence |-> 0, payload |-> n, error_code |-> error_code]

Command_to_vec(cmd) ==
    CASE cmd.name = "NoOp"         -> Raw(<<0, 0, 0, 0>> \o BE32(0))
      [] cmd.name = "Disconnect"   -> Raw(<<1, 0, 0, 0>> \o BE32(0))
      [] cmd.name = "MessageEmpty" -> Raw(<<17, 0, 0, 0>> \o BE32(4) \o BE32(cmd.sequence))
      [] cmd.name = "RetrieveMessage" ->
             Raw(<<16, 0, 0, 0>> \o BE32(4) \o BE32(cmd.sequence))
      [] cmd.name = "Message" ->
             [b |-> <<18, 0, 0, 0>> \o BE32(5 + cmd.payload)
                      \o <<cmd.queue_size_hint>> \o BE32(cmd.sequence),
              z |-> cmd.payload]
      [] cmd.name = "MessageAck" ->
             [b |-> <<19, 0, 0, 0>> \o BE32(21 + cmd.payload)
                      \o <<cmd.queue_size_hint>> \o BE32(cmd.sequence) \o cmd.id,
              z |-> cmd.payload]
      [] cmd.name = "GetConsensus" ->
             Raw(<<32, 0, 0, 0>> \o BE32(8) \o BE32(cmd.epoch.hi) \o BE32(cmd.epoch.lo))
      [] cmd.name = "Consensus" ->
             [b |-> <<33, 0, 0, 0>> \o BE32(1 + cmd.payload) \o <<cmd.error_code>>,
              z |-> cmd.payload]
      [] OTHER -> [b |-> <<2, 0, 0, 0>> \o BE32(cmd.payload), z |-> cmd.payload]

\* A decoder that looks at the type tag only
Command_from_bytes_tag_only(x) ==
    IF Len(x.b) >= 1 /\ x.b[1] = 1
    THEN [ok |-> TRUE, cmd |-> Disconnect]
    ELSE [ok |-> TRUE, cmd |-> NoOp]

Command_from_bytes(x) ==
    IF Len(x.b) < 8 \/ x.b[2] # 0 \/ x.b[3] # 0 \/ x.b[4] # 0
    THEN [ok |-> FALSE, cmd |-> NoCommand]
    ELSE LET n == ReadBE32(SubSeq(x.b, 5, 8)) IN
         IF BLen(x) # 8 + n THEN [ok |-> FALSE, cmd |-> NoCommand]
         ELSE CASE x.b[1] = 0 /\ n = 0 -> [ok |-> TRUE, cmd |-> NoOp]
                [] x.b[1] = 1 /\ n = 0 -> [ok |-> TRUE, cmd |-> Disconnect]
                [] x.b[1] = 17 /\ n = 4 /\ Len(x.b) = 12 ->
                       [ok |-> TRUE, cmd |-> MessageEmpty(ReadBE32(SubSeq(x.b, 9, 12)))]
                [] x.b[1] = 2 /\ x.z = n -> [ok |-> TRUE, cmd |-> SendPacket(n)]
                [] x.b[1] = 16 /\ n = 4 /\ Len(x.b) = 12 ->
                       [ok |-> TRUE, cmd |-> RetrieveMessage(ReadBE32(SubSeq(x.b, 9, 12)))]
                [] x.b[1] = 18 /\ n >= 5 /\ Len(x.b) = 13 ->
                       [ok |-> TRUE,
                        cmd |-> Message(x.b[9], ReadBE32(SubSeq(x.b, 10, 13)), x.z)]
                [] x.b[1] = 19 /\ n >= 21 /\ Len(x.b) = 29 ->
                       [ok |-> TRUE,
                        cmd |-> MessageAck(x.b[9], ReadBE32(SubSeq(x.b, 10, 13)),
                                           SubSeq(x.b, 14, 29), x.z)]
                [] x.b[1] = 32 /\ n = 8 /\ Len(x.b) = 16 ->
                       [ok |-> TRUE,
                        cmd |-> GetConsensus([hi |-> ReadBE32(SubSeq(x.b, 9, 12)),
                                              lo |-> ReadBE32(SubSeq(x.b, 13, 16))])]
                [] x.b[1] = 33 /\ n >= 1 /\ Len(x.b) = 9 ->
                       [ok |-> TRUE, cmd |-> Consensus(x.b[9], x.z)]
                [] OTHER -> [ok |-> FALSE, cmd |-> NoCommand]

(***************************************************************************)
(* The state.                                                              *)
(***************************************************************************)
Sides == {"I", "R"}
Handles == {"I", "R"}
Side(h) == IF h \in {"I"} THEN "I" ELSE "R"
Peer(s) == IF s = "I" THEN "R" ELSE "I"
\* the direction a side writes to, and the one it reads from
OutDir(s) == IF s = "I" THEN "c2s" ELSE "s2c"
InDir(s) == IF s = "I" THEN "s2c" ELSE "c2s"

VARIABLES
    builder,    \* per side: the MessageBuilder its sessions own (None: none)
    session,    \* per handle: the Session's fields
    stream,     \* per direction: the messages written, and the bytes read
    shut,       \* per side: its socket is shut down, closed or reset
    pc,         \* per handle: where its thread is
    local,      \* per handle: the locals of the call in progress
    ret,        \* per handle: what its last API call returned
    ops,        \* per handle: commands it was asked to send
    tampered,   \* bytes altered in flight so far
    path,       \* per side: the states its builder has been in
    auth_log,   \* per side: the is_peer_valid calls of its handshake
    sent,       \* per side: the command bytes send_command put on the stream
    rcvd,       \* per side: the command bytes recv_command decrypted
    clock,      \* per side: the host's clock
    auth,       \* a stand-alone PeerAuthenticator
    calls       \* the is_peer_valid calls on it: key, result, flags before

vars == << builder, session, stream, shut, pc, local, ret, ops, tampered,
           path, auth_log, sent, rcvd, clock, auth, calls >>

B(s) == Unwrap(builder[s])

(***************************************************************************)
(* The byte stream (TcpStream): read_exact and write_all.                  *)
(***************************************************************************)
\* the bytes of the first k messages of segs
RECURSIVE SumTo(_, _)
SumTo(segs, k) == IF k = 0 THEN 0 ELSE segs[k].len + SumTo(segs, k - 1)

SumLen(segs) == SumTo(segs, Len(segs))

SegStart(segs, i) == SumTo(segs, i - 1)

Avail(st) == SumLen(st.segs) - st.rd

\* The next n bytes of the stream: one whole message, or Garbage
BlobAt(st, n) ==
    LET hit == {i \in 1..Len(st.segs) :
                    SegStart(st.segs, i) = st.rd /\ st.segs[i].len = n}
    IN  IF hit = {} THEN Garbage ELSE st.segs[CHOOSE i \in hit : TRUE]

\* read_exact(n) by side s on its incoming stream st: "ok", "eof" (an I/O
\* error) or "block"
ReadExactOn(st, s, n) ==
    IF shut[s] THEN "eof"
    ELSE IF Avail(st) >= n THEN "ok"
    ELSE IF shut[Peer(s)] THEN "eof"
    ELSE "block"

ReadExact(s, n) == ReadExactOn(stream[InDir(s)], s, n)

\* st after n bytes were read (all that is there, on "eof")
ConsumedOn(st, n) ==
    [st EXCEPT !.rd = IF Avail(st) >= n THEN st.rd + n ELSE SumLen(st.segs)]

Consumed(s, n) ==
    [stream EXCEPT ![InDir(s)] = ConsumedOn(stream[InDir(s)], n)]

\* write_all by side s: whether it can succeed
WriteOks(s) ==
    IF shut[s] THEN {FALSE}
    ELSE IF shut[Peer(s)] THEN {TRUE, FALSE}
    ELSE {TRUE}

Written(s, msgs) ==
    [stream EXCEPT ![OutDir(s)].segs = stream[OutDir(s)].segs \o msgs]

(***************************************************************************)
(* Construction: Session::new for both sides.                              *)
(***************************************************************************)
Map1(k, v) == [x \in {k} |-> v]

Config(a, key, peer, ad) ==
    [authenticator |-> a, authentication_key |-> key, peer_public_key |-> peer,
     additional_data |-> ad]

\* A run: the two configurations and the two hosts' clocks (SystemTime::now
\* as u32 seconds).  ic: initiator, rc: responder.
Run(ic, rc, now_i, now_r) == [ic |-> ic, rc |-> rc, now |-> [I |-> now_i, R |-> now_r]]

Initiator(a, peer, ad) == Config(a, "ki", peer, ad)
Responder(a) == Config(a, "kr", "none", <<5>>)

Runs ==
    { \* a Server that knows the initiator
      Run(Initiator(ClientAuth("kr"), "kr", <<7, 9>>),
          Responder(ServerAuth(Map1("ki", TRUE))), 200, 100),
      \* a Provider that knows the initiator as a client
      Run(Initiator(ClientAuth("kr"), "kr", <<7, 9>>),
          Responder(ProviderAuth(EmptyMap, Map1("ki", TRUE))), 200, 100),
      \* a Provider that knows it as a mix and as a client; its clock is ahead
      Run(Initiator(ClientAuth("kr"), "kr", <<>>),
          Responder(ProviderAuth(Map1("ki", FALSE), Map1("ki", TRUE))), 100, 200),
      \* a Server and a Provider that do not know the initiator
      Run(Initiator(ClientAuth("kr"), "kr", <<7, 9>>),
          Responder(ServerAuth(Map1("kx", TRUE))), 200, 100),
      Run(Initiator(ClientAuth("kr"), "kr", <<7, 9>>),
          Responder(ProviderAuth(Map1("kx", TRUE), EmptyMap)), 200, 100),
      \* the initiator expects another key than the responder's
      Run(Initiator(ClientAuth("kx"), "kr", <<7, 9>>),
          Responder(ServerAuth(Map1("ki", TRUE))), 200, 100),
      \* an initiator configured without the peer's key
      Run(Initiator(ClientAuth("kr"), "none", <<>>),
          Responder(ServerAuth(Map1("ki", TRUE))), 200, 100) }

Local0 == [msg |-> Garbage]

Ret(op, r, err, cmd) == [op |-> op, r |-> r, err |-> err, cmd |-> cmd]

\* Session::new
Session_new(config, is_initiator) ==
    LET n == MessageBuilder_new(config, is_initiator) IN
    [r |-> n.r, b |-> n.b,
     session |-> [reader_tcp_stream |-> FALSE, writer_tcp_stream |-> FALSE,
                  is_initiator |-> is_initiator,
                  handshake_builder |-> IsSome(n.b),
                  transport_builder |-> FALSE]]

SessionInit(ic, rc) ==
    LET new == [h \in Handles |->
                   IF h = "I" THEN Session_new(ic, TRUE) ELSE Session_new(rc, FALSE)]
    IN  /\ builder = [s \in Sides |-> new[s].b]
        /\ session = [h \in Handles |-> new[h].session]
        /\ pc = [h \in Handles |-> IF new[h].r = "Ok" THEN "new" ELSE "no_session"]
        /\ ret = [h \in Handles |->
                     Ret("new", IF new[h].r = "Ok" THEN "Ok" ELSE "Err",
                         IF new[h].r = "Ok" THEN "none" ELSE new[h].r, NoCommand)]
        /\ path = [s \in Sides |-> IF new[s].r = "Ok" THEN <<"Init">> ELSE <<>>]
        /\ stream = [d \in {"c2s", "s2c"} |-> [segs |-> <<>>, rd |-> 0]]
        /\ shut = [s \in Sides |-> FALSE]
        /\ local = [h \in Handles |-> Local0]
        /\ ops = [h \in Handles |-> 0]
        /\ tampered = 0
        /\ auth_log = [s \in Sides |-> <<>>]
        /\ sent = [s \in Sides |-> <<>>]
        /\ rcvd = [s \in Sides |-> <<>>]

Init ==
    /\ \E run \in Runs : SessionInit(run.ic, run.rc) /\ clock = run.now
    /\ auth = ClientAuth("kr")
    /\ calls = <<>>

(***************************************************************************)
(* Bookkeeping shared by the actions.                                      *)
(***************************************************************************)
\* The builder of side s becomes b1; path and auth_log follow it.
SetBuilder(s, b1) ==
    LET b0 == B(s) IN
    /\ builder' = [builder EXCEPT ![s] = Some(b1)]
    /\ path' = [path EXCEPT ![s] =
                   IF b1.state = b0.state THEN @ ELSE Append(@, b1.state)]
    /\ auth_log' = [auth_log EXCEPT ![s] =
                   IF ~IsSome(b0.peer_credentials) /\ IsSome(b1.peer_credentials)
                   THEN Append(@, [key |-> Unwrap(b1.peer_credentials).public_key,
                                   ok  |-> is_peer_valid(b0.authenticator,
                                               Unwrap(b1.peer_credentials)).ok])
                   ELSE @]

\* initialize() ends with r (and error err) on handle h.  A panic unwinds
\* the thread: its Session is dropped and the socket closed.  reset: a write
\* failed, which leaves the connection dead.
EndInitialize(h, r, err, reset) ==
    /\ pc' = [pc EXCEPT ![h] = CASE r = "Ok" -> "init_ok"
                                 [] r = "Err" -> "init_err"
                                 [] OTHER -> "panicked"]
    /\ ret' = [ret EXCEPT ![h] = Ret("initialize", r, err, NoCommand)]
    /\ shut' = IF r = "panic" \/ reset THEN [shut EXCEPT ![Side(h)] = TRUE] ELSE shut
    /\ local' = [local EXCEPT ![h] = Local0]

\* initialize() attaches the stream (sync.rs 117-119)
Attach(h) ==
    session' = [session EXCEPT ![h].reader_tcp_stream = TRUE,
                               ![h].writer_tcp_stream = TRUE]

\* Return with a finalize_handshake that takes any command for the NoOp
Return_lenient(h, op, r, cmd, fin, reset) ==
    LET bad  == r # "Ok"
        dies == r = "panic" \/ (fin /\ bad)
    IN
    /\ pc' = [pc EXCEPT ![h] = IF dies THEN "panicked" ELSE "transport"]
    /\ ret' = [ret EXCEPT ![h] =
          IF ~fin
          THEN Ret(op, IF r = "panic" THEN "panic" ELSE IF bad THEN "Err" ELSE "Ok",
                   IF bad /\ r # "panic" THEN r ELSE "none", cmd)
          ELSE IF bad
          THEN Ret("finalize_handshake", "panic", IF r = "panic" THEN "none" ELSE r,
                   NoCommand)
          ELSE Ret("finalize_handshake", "Ok", "none", NoCommand)]
    /\ shut' = IF dies \/ reset THEN [shut EXCEPT ![Side(h)] = TRUE] ELSE shut

\* send_command / recv_command end with r on handle h; fin: the call was
\* made by finalize_handshake, which unwraps the result (sync.rs 103-114);
\* reset: a write failed, which leaves the connection dead.
Return(h, op, r, cmd, fin, reset) ==
    LET bad  == r # "Ok"
        dies == r = "panic" \/ (fin /\ bad)
    IN
    /\ pc' = [pc EXCEPT ![h] = IF dies THEN "panicked" ELSE "transport"]
    /\ ret' = [ret EXCEPT ![h] =
          IF ~fin
          THEN Ret(op, IF r = "panic" THEN "panic" ELSE IF bad THEN "Err" ELSE "Ok",
                   IF bad /\ r # "panic" THEN r ELSE "none", cmd)
          ELSE IF bad
          THEN Ret("finalize_handshake", "panic", IF r = "panic" THEN "none" ELSE r,
                   NoCommand)
          ELSE IF op = "recv_command" /\ cmd # NoOp
          THEN Ret("finalize_handshake", "Err", "InvalidHandshakeFinalize", NoCommand)
          ELSE Ret("finalize_handshake", "Ok", "none", NoCommand)]
    /\ shut' = IF dies \/ reset THEN [shut EXCEPT ![Side(h)] = TRUE] ELSE shut

(***************************************************************************)
(* Session::initialize / handshake (sync.rs 66-122), one action per        *)
(* message of the handshake and per role.                                  *)
(***************************************************************************)
\* Initiator, sync.rs 72-74: write message 1.
ClientHandshake1(h) ==
    /\ pc[h] = "new" /\ session[h].is_initiator
    /\ Attach(h)
    /\ \E len \in NoiseWriteLens(0, <<>>), wok \in WriteOks(Side(h)) :
         LET res == client_handshake1(B(Side(h)), len) IN
         IF res.r # "Ok"
         THEN /\ SetBuilder(Side(h), res.b)
              /\ EndInitialize(h, IF res.r = "panic" THEN "panic" ELSE "Err",
                               IF res.r = "panic" THEN "none" ELSE res.r, FALSE)
              /\ UNCHANGED stream
         ELSE IF ~wok
         THEN /\ SetBuilder(Side(h), res.b)
              /\ EndInitialize(h, "Err", "IoError", TRUE)
              /\ UNCHANGED stream
         ELSE /\ SetBuilder(Side(h), sent_client_handshake1(res.b))
              /\ stream' = Written(Side(h), <<res.out>>)
              /\ pc' = [pc EXCEPT ![h] = "hs_read2"]
              /\ UNCHANGED << ret, shut, local >>
    /\ UNCHANGED << ops, tampered, sent, rcvd, clock, auth, calls >>

\* Initiator, sync.rs 77-79: read message 2.
ClientHandshake2(h) ==
    /\ pc[h] = "hs_read2"
    /\ ReadExact(Side(h), NOISE_HANDSHAKE_MESSAGE2_SIZE) # "block"
    /\ stream' = Consumed(Side(h), NOISE_HANDSHAKE_MESSAGE2_SIZE)
    /\ IF ReadExact(Side(h), NOISE_HANDSHAKE_MESSAGE2_SIZE) = "eof"
       THEN /\ EndInitialize(h, "Err", "IoError", FALSE)
            /\ UNCHANGED << builder, path, auth_log >>
       ELSE \E overflow_checks \in BOOLEAN :
              LET now == clock[Side(h)]
                  m   == BlobAt(stream[InDir(Side(h))], NOISE_HANDSHAKE_MESSAGE2_SIZE)
                  res == received_server_handshake1(B(Side(h)), m, now, overflow_checks)
              IN  /\ SetBuilder(Side(h), res.b)
                  /\ IF res.r = "Ok"
                     THEN /\ pc' = [pc EXCEPT ![h] = "hs_write3"]
                          /\ UNCHANGED << ret, shut, local >>
                     ELSE EndInitialize(h, IF res.r = "panic" THEN "panic" ELSE "Err",
                                        IF res.r = "panic" THEN "none" ELSE res.r, FALSE)
    /\ UNCHANGED << session, ops, tampered, sent, rcvd, clock, auth, calls >>

\* Initiator, sync.rs 82-84: write message 3.
ClientHandshake3(h) ==
    /\ pc[h] = "hs_write3"
    /\ \E len \in NoiseWriteLens(2, AuthenticateMessage_to_vec(
                      [ad |-> B(Side(h)).additional_data, unix_time |-> 0]).v),
          wok \in WriteOks(Side(h)) :
         LET res == client_handshake2(B(Side(h)), len) IN
         IF res.r # "Ok"
         THEN /\ SetBuilder(Side(h), res.b)
              /\ EndInitialize(h, IF res.r = "panic" THEN "panic" ELSE "Err",
                               IF res.r = "panic" THEN "none" ELSE res.r, FALSE)
              /\ UNCHANGED stream
         ELSE IF ~wok
         THEN /\ SetBuilder(Side(h), res.b)
              /\ EndInitialize(h, "Err", "IoError", TRUE)
              /\ UNCHANGED stream
         ELSE /\ SetBuilder(Side(h), sent_client_handshake2(res.b))
              /\ stream' = Written(Side(h), <<res.out>>)
              /\ EndInitialize(h, "Ok", "none", FALSE)
    /\ UNCHANGED << session, ops, tampered, sent, rcvd, clock, auth, calls >>

\* Responder, sync.rs 87-89: read message 1, build message 2 (unwrapped).
ServerHandshake1(h) ==
    /\ pc[h] = "new" /\ ~session[h].is_initiator
    /\ ReadExact(Side(h), NOISE_HANDSHAKE_MESSAGE1_SIZE) # "block"
    /\ Attach(h)
    /\ stream' = Consumed(Side(h), NOISE_HANDSHAKE_MESSAGE1_SIZE)
    /\ IF ReadExact(Side(h), NOISE_HANDSHAKE_MESSAGE1_SIZE) = "eof"
       THEN /\ EndInitialize(h, "Err", "IoError", FALSE)
            /\ UNCHANGED << builder, path, auth_log >>
       ELSE LET now == clock[Side(h)] IN
            \E len \in NoiseWriteLens(1, AuthenticateMessage_to_vec(
                         [ad |-> B(Side(h)).additional_data, unix_time |-> now]).v) :
              LET m   == BlobAt(stream[InDir(Side(h))], NOISE_HANDSHAKE_MESSAGE1_SIZE)
                  res == received_client_handshake1(B(Side(h)), m, now, len)
              IN  /\ SetBuilder(Side(h), res.b)
                  /\ IF res.r = "Ok"
                     THEN /\ pc' = [pc EXCEPT ![h] = "hs_write2"]
                          /\ local' = [local EXCEPT ![h].msg = res.out]
                          /\ UNCHANGED << ret, shut >>
                     ELSE EndInitialize(h, "panic",
                                        IF res.r = "panic" THEN "none" ELSE res.r, FALSE)
    /\ UNCHANGED << ops, tampered, sent, rcvd, clock, auth, calls >>

\* Responder, sync.rs 92-93: write message 2.
ServerHandshake2(h) ==
    /\ pc[h] = "hs_write2"
    /\ \E wok \in WriteOks(Side(h)) :
         IF ~wok
         THEN /\ EndInitialize(h, "Err", "IoError", TRUE)
              /\ UNCHANGED << builder, path, auth_log, stream >>
         ELSE /\ SetBuilder(Side(h), sent_server_handshake1(B(Side(h))))
              /\ stream' = Written(Side(h), <<local[h].msg>>)
              /\ pc' = [pc EXCEPT ![h] = "hs_read3"]
              /\ local' = [local EXCEPT ![h] = Local0]
              /\ UNCHANGED << ret, shut >>
    /\ UNCHANGED << session, ops, tampered, sent, rcvd, clock, auth, calls >>

\* Responder, sync.rs 96-98: read message 3 (unwrapped).
ServerHandshake3(h) ==
    /\ pc[h] = "hs_read3"
    /\ ReadExact(Side(h), NOISE_HANDSHAKE_MESSAGE3_SIZE) # "block"
    /\ stream' = Consumed(Side(h), NOISE_HANDSHAKE_MESSAGE3_SIZE)
    /\ IF ReadExact(Side(h), NOISE_HANDSHAKE_MESSAGE3_SIZE) = "eof"
       THEN /\ EndInitialize(h, "Err", "IoError", FALSE)
            /\ UNCHANGED << builder, path, auth_log >>
       ELSE LET m   == BlobAt(stream[InDir(Side(h))], NOISE_HANDSHAKE_MESSAGE3_SIZE)
                res == received_client_handshake2(B(Side(h)), m)
            IN  /\ SetBuilder(Side(h), res.b)
                /\ EndInitialize(h, IF res.r = "Ok" THEN "Ok" ELSE "panic",
                                 IF res.r \in {"Ok", "panic"} THEN "none" ELSE res.r, FALSE)
    /\ UNCHANGED << session, ops, tampered, sent, rcvd, clock, auth, calls >>

\* Session::into_transport_mode (sync.rs 124-132) consumes the Session: on
\* an error it is dropped, and its socket with it.
IntoTransportMode(h) ==
    /\ pc[h] \in {"new", "init_ok", "init_err"}
    /\ LET t == into_transport_mode(B(Side(h))) IN
       /\ builder' = [builder EXCEPT ![Side(h)] = t.b]
       /\ session' = [session EXCEPT ![h].handshake_builder = FALSE,
                                     ![h].transport_builder = (t.r = "Ok")]
       /\ pc' = [pc EXCEPT ![h] = IF t.r = "Ok" THEN "transport" ELSE "dropped"]
       /\ ret' = [ret EXCEPT ![h] =
                     Ret("into_transport_mode", IF t.r = "Ok" THEN "Ok" ELSE "Err",
                         IF t.r = "Ok" THEN "none" ELSE t.r, NoCommand)]
       /\ shut' = IF t.r = "Ok" THEN shut ELSE [shut EXCEPT ![Side(h)] = TRUE]
    /\ UNCHANGED << stream, local, ops, tampered, path, auth_log, sent, rcvd,
                    clock, auth, calls >>

(***************************************************************************)
(* Transport mode (sync.rs 103-172).  Each call is one action: a Session   *)
(* is the only user of its builder, and what it reads from the stream does *)
(* not depend on when the peer's later writes arrive.                      *)
(***************************************************************************)
\* The commands a caller sends: the second is too large for a Noise message.
Commands == {MessageEmpty(258), SendPacket(NOISE_MESSAGE_MAX_SIZE)}

RECURSIVE SumOps(_)
SumOps(hs) ==
    IF hs = {} THEN 0
    ELSE LET h == CHOOSE x \in hs : TRUE IN ops[h] + SumOps(hs \ {h})

SendsLeft == SumOps(Handles) < MaxOps

\* send_command with the outgoing rekey left out
send_command_no_rekey(b, cmd, wok) ==
    LET ct     == Command_to_vec(cmd)
        ct_len == MAC_LEN + BLen(ct)
    IN
    IF ct_len > MAX_MSG_LEN THEN Res(b, "InvalidMessageSize", <<>>) ELSE
    LET enc == encrypt_message(b, ct) IN
    IF enc.r # "Ok" THEN Res(enc.b, enc.r, <<>>) ELSE
    IF ~wok THEN Res(enc.b, "IoError", <<>>)
    ELSE Res(enc.b, "Ok", enc.out)

\* Session::send_command: r is "Ok" or the error's name, b the builder and
\* out the frames written afterwards.  wok: whether write_all succeeds.
send_command(b, cmd, wok) ==
    LET ct     == Command_to_vec(cmd)
        ct_len == MAC_LEN + BLen(ct)
    IN
    IF ct_len > MAX_MSG_LEN THEN Res(b, "InvalidMessageSize", <<>>) ELSE
    LET enc == encrypt_message(b, ct) IN
    IF enc.r # "Ok" THEN Res(enc.b, enc.r, <<>>) ELSE
    LET b1 == rekey_outgoing(enc.b) IN
    IF ~wok THEN Res(b1, "IoError", <<>>)
    ELSE Res(b1, "Ok", enc.out)

\* recv_command that rekeys also after a body that failed to decrypt
recv_command_resync(b, st, s, bump) ==
    LET n1  == MAC_LEN + 4
        st1 == ConsumedOn(st, n1)
    IN
    IF ReadExactOn(st, s, n1) # "ok"
    THEN [r |-> "IoError", b |-> b, st |-> st1, body |-> None, cmd |-> NoCommand] ELSE
    LET hdr == decrypt_message_header(b, BlobAt(st, n1), bump) IN
    IF hdr.r # "Ok"
    THEN [r |-> hdr.r, b |-> hdr.b, st |-> st1, body |-> None, cmd |-> NoCommand] ELSE
    LET ct_len == hdr.out
        st2    == ConsumedOn(st1, ct_len)
    IN
    IF ReadExactOn(st1, s, ct_len) # "ok"
    THEN [r |-> "IoError", b |-> hdr.b, st |-> st2, body |-> None, cmd |-> NoCommand] ELSE
    LET dec == decrypt_message(hdr.b, BlobAt(st1, ct_len), bump) IN
    IF dec.r # "Ok"
    THEN [r |-> dec.r, b |-> rekey_incoming(dec.b), st |-> st2, body |-> None,
          cmd |-> NoCommand] ELSE
    LET b1 == rekey_incoming(dec.b)
        d  == Command_from_bytes(dec.out)
    IN  [r |-> IF d.ok THEN "Ok" ELSE "CommandError", b |-> b1, st |-> st2,
         body |-> Some(dec.out), cmd |-> d.cmd]

\* Session::recv_command by side s on the incoming stream st: r, the builder
\* b, the stream, the body decrypted (if any) and the command decoded.
recv_command(b, st, s, bump) ==
    LET n1  == MAC_LEN + 4
        st1 == ConsumedOn(st, n1)
    IN
    IF ReadExactOn(st, s, n1) # "ok"
    THEN [r |-> "IoError", b |-> b, st |-> st1, body |-> None, cmd |-> NoCommand] ELSE
    LET hdr == decrypt_message_header(b, BlobAt(st, n1), bump) IN
    IF hdr.r # "Ok"
    THEN [r |-> hdr.r, b |-> hdr.b, st |-> st1, body |-> None, cmd |-> NoCommand] ELSE
    LET ct_len == hdr.out
        st2    == ConsumedOn(st1, ct_len)
    IN
    IF ReadExactOn(st1, s, ct_len) # "ok"
    THEN [r |-> "IoError", b |-> hdr.b, st |-> st2, body |-> None, cmd |-> NoCommand] ELSE
    LET dec == decrypt_message(hdr.b, BlobAt(st1, ct_len), bump) IN
    IF dec.r # "Ok"
    THEN [r |-> dec.r, b |-> dec.b, st |-> st2, body |-> None, cmd |-> NoCommand] ELSE
    LET b1 == rekey_incoming(dec.b)
        d  == Command_from_bytes(dec.out)
    IN  [r |-> IF d.ok THEN "Ok" ELSE "CommandError", b |-> b1, st |-> st2,
         body |-> Some(dec.out), cmd |-> d.cmd]

\* recv_command can return: the length frame is there (or never will be),
\* and so is the body it announces.
RecvReady(b, st, s) ==
    /\ ReadExactOn(st, s, MAC_LEN + 4) # "block"
    /\ ReadExactOn(st, s, MAC_LEN + 4) = "ok" =>
         LET hdr == decrypt_message_header(b, BlobAt(st, MAC_LEN + 4), FALSE) IN
         hdr.r = "Ok" =>
            ReadExactOn(ConsumedOn(st, MAC_LEN + 4), s, hdr.out) # "block"

Send(h, cmd, fin) ==
    /\ ops' = [ops EXCEPT ![h] = @ + 1]
    /\ \E wok \in WriteOks(Side(h)) :
         LET res == send_command(B(Side(h)), cmd, wok) IN
         /\ builder' = [builder EXCEPT ![Side(h)] = Some(res.b)]
         /\ stream' = Written(Side(h), res.out)
         /\ sent' = [sent EXCEPT ![Side(h)] =
                        IF res.r = "Ok" THEN Append(@, Command_to_vec(cmd)) ELSE @]
         /\ Return(h, "send_command", res.r, NoCommand, fin, res.r = "IoError")
    /\ UNCHANGED << session, local, tampered, path, auth_log, rcvd, clock,
                    auth, calls >>

Recv(h, fin) ==
    /\ RecvReady(B(Side(h)), stream[InDir(Side(h))], Side(h))
    /\ \E bump \in BOOLEAN :
       \E res \in {recv_command(B(Side(h)), stream[InDir(Side(h))], Side(h), bump)} :
       /\ builder' = [builder EXCEPT ![Side(h)] = Some(res.b)]
       /\ stream' = [stream EXCEPT ![InDir(Side(h))] = res.st]
       /\ rcvd' = [rcvd EXCEPT ![Side(h)] =
                      IF IsSome(res.body) THEN Append(@, Unwrap(res.body)) ELSE @]
       /\ Return(h, "recv_command", res.r, res.cmd, fin, FALSE)
    /\ UNCHANGED << session, local, ops, tampered, path, auth_log, sent, clock,
                    auth, calls >>

SendCommand(h) ==
    /\ pc[h] = "transport" /\ SendsLeft
    /\ \E cmd \in Commands : Send(h, cmd, FALSE)

RecvCommand(h) ==
    /\ pc[h] = "transport"
    /\ Recv(h, FALSE)

\* finalize_handshake, sync.rs 103-114: the initiator receives a NoOp, the
\* responder sends one; both unwrap the result.  It is called, if at all,
\* as the first call after into_transport_mode (sync.rs 249-250, 274-275).
FinalizeHandshake(h) ==
    /\ pc[h] = "transport" /\ ret[h].op = "into_transport_mode"
    /\ IF session[h].is_initiator THEN Recv(h, TRUE)
                                  ELSE SendsLeft /\ Send(h, NoOp, TRUE)

\* close, sync.rs 166-172 (once per session in this model)
Close(h) ==
    /\ pc[h] = "transport" /\ ~shut[Side(h)]
    /\ builder' = [builder EXCEPT ![Side(h)] =
                      Some(wipe(rekey_incoming(rekey_outgoing(B(Side(h))))))]
    /\ shut' = [shut EXCEPT ![Side(h)] = TRUE]
    /\ ret' = [ret EXCEPT ![h] = Ret("close", "Ok", "none", NoCommand)]
    /\ UNCHANGED << session, stream, pc, local, ops, tampered, path, auth_log,
                    sent, rcvd, clock, auth, calls >>

(***************************************************************************)
(* The network: an on-path attacker alters the next message to be read,    *)
(* or the body frame behind the length frame that is next to be read.      *)
(* In message 1 it alters either the prologue byte or a later byte.        *)
(***************************************************************************)
Tamper(d) ==
    /\ tampered < MaxTamper
    /\ \E i \in 1..Len(stream[d].segs), prologue_byte \in BOOLEAN :
         LET m == stream[d].segs[i] IN
         /\ \/ SegStart(stream[d].segs, i) = stream[d].rd
            \/ /\ m.kind = "body"
               /\ SegStart(stream[d].segs, i - 1) = stream[d].rd
         /\ m.ok /\ m.prologue = (IF m.kind = "hs1" THEN PROLOGUE ELSE 0)
         /\ prologue_byte => m.kind = "hs1"
         /\ stream' = [stream EXCEPT ![d].segs[i] =
                          IF prologue_byte THEN [m EXCEPT !.prologue = 0]
                                           ELSE [m EXCEPT !.ok = FALSE]]
    /\ tampered' = tampered + 1
    /\ UNCHANGED << builder, session, shut, pc, local, ret, ops, path, auth_log,
                    sent, rcvd, clock, auth, calls >>

Next ==
    \/ \E h \in Handles : ClientHandshake1(h)
    \/ \E h \in Handles : ClientHandshake2(h)
    \/ \E h \in Handles : ClientHandshake3(h)
    \/ \E h \in Handles : ServerHandshake1(h)
    \/ \E h \in Handles : ServerHandshake2(h)
    \/ \E h \in Handles : ServerHandshake3(h)
    \/ \E h \in Handles : IntoTransportMode(h)
    \/ \E h \in Handles : FinalizeHandshake(h)
    \/ \E h \in Handles : SendCommand(h)
    \/ \E h \in Handles : RecvCommand(h)
    \/ \E h \in Handles : Close(h)
    \/ \E d \in {"c2s", "s2c"} : Tamper(d)

Spec == Init /\ [][Next]_vars

(***************************************************************************)
(* SpecAuth: a PeerAuthenticator on its own.  A caller builds one with     *)
(* any maps over Keys and calls is_peer_valid with any key.                *)
(***************************************************************************)
Maps == UNION {[ks -> BOOLEAN] : ks \in SUBSET Keys}

Authenticators ==
    {ClientAuth(k) : k \in Keys}
    \cup {ServerAuth(m) : m \in Maps}
    \cup {ProviderAuth(m, c) : m \in Maps, c \in Maps}

InitAuth ==
    /\ SessionInit(Initiator(ClientAuth("kr"), "kr", <<>>),
                   Responder(ServerAuth(Map1("ki", TRUE))))
    /\ clock = [I |-> 200, R |-> 100]
    /\ auth \in Authenticators
    /\ calls = <<>>

\* is_peer_valid(key) on the authenticator; the call is recorded with the
\* authenticator before and after it.
IsPeerValid(key) ==
    /\ Len(calls) < MaxCalls
    /\ LET v == is_peer_valid(auth, [additional_data |-> <<>>, public_key |-> key]) IN
       /\ auth' = v.a
       /\ calls' = Append(calls, [key |-> key, ok |-> v.ok, before |-> auth,
                                  after |-> v.a])
    /\ UNCHANGED << builder, session, stream, shut, pc, local, ret, ops, tampered,
                    path, auth_log, sent, rcvd, clock >>

NextAuth == \E key \in Keys : IsPeerValid(key)

SpecAuth == InitAuth /\ [][NextAuth]_vars

(***************************************************************************)
(* Properties.                                                             *)
(***************************************************************************)
Last(q) == q[Len(q)]

IsPrefix(p, q) == Len(p) <= Len(q) /\ SubSeq(q, 1, Len(p)) = p

Segs(s) == stream[OutDir(s)].segs

\* the authenticator of side s has turned the peer down
Rejected(s) == \E i \in 1..Len(auth_log[s]) : ~auth_log[s][i].ok

\* the authenticator of side s accepted the static key the peer presented
\* in its handshake message, and that key is the one recorded
Accepted(s) ==
    /\ auth_log[s] # <<>> /\ Last(auth_log[s]).ok
    /\ \E i \in 1..Len(Segs(Peer(s))) :
          /\ Segs(Peer(s))[i].kind \in {"hs2", "hs3"}
          /\ Segs(Peer(s))[i].s = Last(auth_log[s]).key
    /\ IsSome(B(s).peer_credentials)
    /\ Unwrap(B(s).peer_credentials).public_key = Last(auth_log[s]).key

TransportKinds == {"len", "body"}

\* side s has put a transport frame on the stream
WroteTransport(s) == \E i \in 1..Len(Segs(s)) : Segs(s)[i].kind \in TransportKinds

\* C1: mutual authentication: a builder is in DataTransfer only if its
\* authenticator accepted the static key the peer presented; a side whose
\* authenticator rejected the peer is never in DataTransfer and neither
\* sends nor receives a transport command.
C1_MutualAuthentication ==
    \A s \in Sides :
        /\ (IsSome(builder[s]) /\ B(s).state = "DataTransfer") => Accepted(s)
        /\ Rejected(s) =>
              /\ IsSome(builder[s]) => B(s).state # "DataTransfer"
              /\ sent[s] = <<>> /\ rcvd[s] = <<>>
              /\ ~WroteTransport(s)

\* The initiator is in DataTransfer having accepted the responder, and the
\* responder has rejected the initiator.
C1_Witness ==
    /\ IsSome(builder["I"]) /\ B("I").state = "DataTransfer" /\ Accepted("I")
    /\ Rejected("R") /\ pc["R"] = "panicked"

RolePath(s) ==
    IF s = "I"
    THEN << "Init", "SentClientHandshake1", "ReceivedServerHandshake1", "DataTransfer" >>
    ELSE << "Init", "ReceivedClientHandshake1", "SentServerHandshake1", "DataTransfer" >>

\* C2: the states a builder has been in are the first states of its role's
\* path, in order, none skipped or revisited; when initialize() has
\* succeeded they are the whole path.
C2_StatePath ==
    \A h \in Handles :
        /\ IsPrefix(path[Side(h)], RolePath(Side(h)))
        /\ pc[h] = "init_ok" => path[Side(h)] = RolePath(Side(h))

C2_Witness ==
    /\ pc["I"] = "init_ok" /\ pc["R"] = "init_ok"
    /\ B("I").state = "DataTransfer" /\ B("R").state = "DataTransfer"

\* the index of the first message of kind k that side s wrote (0: none)
FirstOf(s, ks) ==
    LET hit == {i \in 1..Len(Segs(s)) : Segs(s)[i].kind \in ks} IN
    IF hit = {} THEN 0 ELSE CHOOSE i \in hit : \A j \in hit : i <= j

Wrote(s, k) == FirstOf(s, {k}) # 0

\* C3: wire ordering.  Message 1 is the first thing on the wire; message 2
\* is written only after the responder has read and accepted message 1;
\* message 3 only after the initiator has read message 2 and accepted the
\* responder; the initiator writes no transport frame before message 3,
\* the responder none before it has read and authenticated message 3.
C3_WireOrdering ==
    /\ (Segs("I") # <<>> \/ Segs("R") # <<>>) =>
          Segs("I") # <<>> /\ Segs("I")[1].kind = "hs1"
    /\ Wrote("R", "hs2") =>
          /\ stream["c2s"].rd >= NOISE_HANDSHAKE_MESSAGE1_SIZE
          /\ Len(path["R"]) >= 2 /\ path["R"][2] = "ReceivedClientHandshake1"
          /\ FirstOf("R", {"hs2"}) = 1
    /\ Wrote("I", "hs3") =>
          /\ stream["s2c"].rd >= NOISE_HANDSHAKE_MESSAGE2_SIZE
          /\ auth_log["I"] # <<>> /\ Last(auth_log["I"]).ok
          /\ FirstOf("I", {"hs3"}) = 2
    /\ WroteTransport("I") =>
          /\ Wrote("I", "hs3")
          /\ FirstOf("I", {"hs3"}) < FirstOf("I", TransportKinds)
    /\ WroteTransport("R") =>
          /\ stream["c2s"].rd >= NOISE_HANDSHAKE_MESSAGE1_SIZE
                                   + NOISE_HANDSHAKE_MESSAGE3_SIZE
          /\ auth_log["R"] # <<>> /\ Last(auth_log["R"]).ok
          /\ Wrote("I", "hs3")

\* Both sides have written transport frames after the three messages.
C3_Witness ==
    /\ WroteTransport("I") /\ WroteTransport("R")
    /\ Wrote("R", "hs2") /\ Wrote("I", "hs3")

\* the message-1 frame the responder is about to read
Message1 == BlobAt(stream["c2s"], NOISE_HANDSHAKE_MESSAGE1_SIZE)

\* C4: prologue rejection.  Given a message-1 frame whose first byte is not
\* 0x01, a responder builder in Init answers PrologueMismatchError and is
\* left as it was: state Init, the Noise handshake not advanced, no peer
\* credentials; and that is the state the responder is found in afterwards.
C4_PrologueRejection ==
    /\ (pc["R"] = "new" /\ ReadExact("R", NOISE_HANDSHAKE_MESSAGE1_SIZE) = "ok"
          /\ FirstByte(Message1) # PROLOGUE) =>
          \A len \in {NOISE_HANDSHAKE_MESSAGE2_SIZE, NOISE_HANDSHAKE_MESSAGE2_SIZE - 4} :
              LET res == received_client_handshake1(B("R"), Message1, clock["R"], len)
              IN  /\ res.r = "PrologueMismatchError"
                  /\ res.b = B("R")
    /\ ret["R"].err = "PrologueMismatchError" =>
          /\ B("R").state = "Init"
          /\ ~IsSome(B("R").peer_credentials)
          /\ Unwrap(B("R").handshake_state).pos = 0
          /\ Unwrap(B("R").handshake_state).h = <<"prologue">>
          /\ Segs("R") = <<>>

\* The responder has been given a frame with another first byte.
C4_Witness ==
    /\ ret["R"].err = "PrologueMismatchError"
    /\ stream["c2s"].rd = NOISE_HANDSHAKE_MESSAGE1_SIZE
    /\ Segs("I")[1].prologue # PROLOGUE

\* C5: an authenticator's rejection ends the handshake.  The initiator's
\* initialize() fails with AuthenticationError after Noise message 2, its
\* builder never enters ReceivedServerHandshake1 and message 3 is never
\* written; the responder's received_client_handshake2 fails with
\* AuthenticationError and its builder never enters DataTransfer.
C5_RejectionEndsHandshake ==
    /\ Rejected("I") =>
          /\ pc["I"] \in {"init_err", "dropped"}
          /\ pc["I"] = "init_err" =>
                /\ ret["I"] = Ret("initialize", "Err", "AuthenticationError", NoCommand)
                /\ B("I").state = "SentClientHandshake1"
                /\ Unwrap(B("I").handshake_state).pos = 2
          /\ path["I"] = << "Init", "SentClientHandshake1" >>
          /\ ~Wrote("I", "hs3")
    /\ Rejected("R") =>
          /\ pc["R"] = "panicked"
          /\ ret["R"] = Ret("initialize", "panic", "AuthenticationError", NoCommand)
          /\ B("R").state = "SentServerHandshake1"
          /\ path["R"] = << "Init", "ReceivedClientHandshake1", "SentServerHandshake1" >>

\* The initiator's authenticator has turned the responder down.
C5_Witness ==
    /\ Rejected("I") /\ pc["I"] = "init_err"
    /\ stream["s2c"].rd = NOISE_HANDSHAKE_MESSAGE2_SIZE

\* C6: in every state of a builder that has not been lost to a panic,
\* peer_credentials is present if and only if state is one of
\* ReceivedServerHandshake1, DataTransfer, Disconnected.
C6_CredentialsIffState ==
    \A s \in Sides :
        (IsSome(builder[s]) /\ pc[s] # "panicked") =>
            (IsSome(B(s).peer_credentials)
                <=> B(s).state \in {"ReceivedServerHandshake1", "DataTransfer",
                                    "Disconnected"})

\* the transport frames side s has written, in order
IsTransport(m) == m.kind \in TransportKinds

Frames(s) == SelectSeq(Segs(s), IsTransport)

\* where the k-th pair of transport frames written by side s ends
EndOfPair(s, k) ==
    SumTo(Segs(s), Len(Segs(s)) - Len(Frames(s)) + 2 * k)

\* C10: transport framing.  Every command send_command accepts goes on the
\* stream as a 20-byte length frame whose plaintext is the big-endian u32
\* MAC_SIZE + len(command bytes), followed by a body frame of
\* len(command bytes) + 16 bytes; the receiver recovers the command bytes
\* in order, and after each command it has received it stands at the end
\* of that command's pair of frames.
C10_TransportFraming ==
    \A s \in Sides :
        LET fr == Frames(s)
            r  == Peer(s)
        IN
        /\ Len(fr) = 2 * Len(sent[s])
        /\ \A j \in 1..Len(sent[s]) :
              /\ fr[2 * j - 1].kind = "len"
              /\ fr[2 * j - 1].len = 20
              /\ fr[2 * j - 1].pt = Raw(BE32(MAC_SIZE + BLen(sent[s][j])))
              /\ fr[2 * j].kind = "body"
              /\ fr[2 * j].len = BLen(sent[s][j]) + 16
              /\ fr[2 * j].pt = sent[s][j]
        /\ IsPrefix(rcvd[r], sent[s])
        /\ (ret[r].op = "recv_command" /\ ret[r].r = "Ok") =>
              stream[OutDir(s)].rd = EndOfPair(s, Len(rcvd[r]))
        /\ (pc[r] = "transport" /\ tampered = 0 /\ ~shut[r] /\ ~shut[s]) =>
              stream[OutDir(s)].rd = EndOfPair(s, Len(rcvd[r]))

\* The initiator has received two commands of different lengths, in order.
C10_Witness ==
    /\ Len(rcvd["I"]) = 2 /\ BLen(rcvd["I"][1]) # BLen(rcvd["I"][2])
    /\ ret["I"].op = "recv_command" /\ ret["I"].r = "Ok"
    /\ ret["I"].cmd = MessageEmpty(258)

\* whether key k is in map m
Member(k, m) == k \in DOMAIN m

\* C7: is_peer_valid admits by variant: a Client accepts a key iff it is
\* the configured key, a Server iff it is in its mix set, a Provider iff
\* it is in its mix set or in its client set.
C7_AdmitsByVariant ==
    \A i \in 1..Len(calls) :
        LET c == calls[i]
            a == c.before
        IN  c.ok <=> CASE a.variant = "Client" -> c.key = a.peer_public_key
                       [] a.variant = "Server" -> Member(c.key, a.mix_map)
                       [] OTHER -> Member(c.key, a.mix_map) \/ Member(c.key, a.client_map)

\* A Server has accepted a key its map holds with the value false, and
\* then turned down a key its map does not hold.
C7_Witness ==
    /\ Len(calls) = 2
    /\ calls[1].before.variant = "Server"
    /\ calls[1].ok /\ ~calls[1].before.mix_map[calls[1].key]
    /\ ~calls[2].ok

Fresh(a) == a.variant = "Provider" /\ ~a.from_mix /\ ~a.from_client

\* C8: one is_peer_valid call on a Provider whose flags are both false:
\* a key in the mix set sets from_mix only (also when the client set holds
\* it too), a key only in the client set sets from_client only and makes
\* is_peer_client() true, a key in neither is rejected and sets no flag.
C8_ProviderClassification ==
    \A i \in 1..Len(calls) :
        LET c == calls[i]
            a == c.before
            b == c.after
        IN  Fresh(a) =>
              /\ Member(c.key, a.mix_map) =>
                    c.ok /\ b.from_mix /\ ~b.from_client /\ ~is_peer_client(b)
              /\ (~Member(c.key, a.mix_map) /\ Member(c.key, a.client_map)) =>
                    c.ok /\ b.from_client /\ ~b.from_mix /\ is_peer_client(b)
              /\ (~Member(c.key, a.mix_map) /\ ~Member(c.key, a.client_map)) =>
                    ~c.ok /\ ~b.from_mix /\ ~b.from_client /\ ~is_peer_client(b)

\* A fresh Provider has been given a key that is in both of its sets.
C8_Witness ==
    /\ Len(calls) = 1 /\ Fresh(calls[1].before)
    /\ Member(calls[1].key, calls[1].before.mix_map)
    /\ Member(calls[1].key, calls[1].before.client_map)
    /\ auth.from_mix /\ ~is_peer_client(auth)

\* C9: after any sequence of is_peer_valid calls on a Provider,
\* is_peer_client() is true iff the most recent call accepted the key from
\* the client set (it is false if that call accepted a mix key or rejected).
C9_LastDecision ==
    (auth.variant = "Provider" /\ calls # <<>>) =>
        LET c == Last(calls) IN
        is_peer_client(auth)
            <=> (~Member(c.key, c.before.mix_map) /\ Member(c.key, c.before.client_map))


\* the outgoing and the incoming cipher state of the builder of side s in
\* the builders bs
TxOf(bs, s) == Unwrap(Unwrap(bs[s]).transport_state).tx

RxOf(bs, s) == Unwrap(Unwrap(bs[s]).transport_state).rx

\* a step in which send_command of side s returned Ok
SendOk(s) == Len(sent'[s]) = Len(sent[s]) + 1

\* a step in which recv_command of side s decrypted a command
RecvOk(s) == Len(rcvd'[s]) = Len(rcvd[s]) + 1

\* C11: per-message rekey, per direction.  A send_command that succeeds
\* rekeys the outgoing cipher exactly once and leaves the incoming cipher
\* alone; a recv_command that succeeds rekeys the incoming cipher exactly
\* once and leaves the outgoing cipher alone; the two frames of one send
\* carry one key, and no two sends of a side carry the same key.
C11_PerMessageRekey ==
    /\ [](\A s \in Sides : \A j, k \in 1..Len(sent[s]) :
              /\ Frames(s)[2 * j - 1].key = Frames(s)[2 * j].key
              /\ j # k => Frames(s)[2 * j].key # Frames(s)[2 * k].key)
    /\ [][\A s \in Sides :
            /\ SendOk(s) =>
                  /\ TxOf(builder', s).key.gen = TxOf(builder, s).key.gen + 1
                  /\ RxOf(builder', s) = RxOf(builder, s)
                  /\ Last(Frames(s)').key = TxOf(builder, s).key
            /\ RecvOk(s) =>
                  /\ RxOf(builder', s).key.gen = RxOf(builder, s).key.gen + 1
                  /\ TxOf(builder', s) = TxOf(builder, s)]_vars

\* The initiator has sent two commands and the responder received both.
C11_Witness ==
    /\ Len(sent["I"]) = 2 /\ Len(rcvd["R"]) = 2
    /\ TxOf(builder, "I").key.gen = 2 /\ RxOf(builder, "R").key.gen = 2
    /\ Frames("I")[2].key.gen = 0 /\ Frames("I")[4].key.gen = 1

\* both sides hold a transport state and the stream between them is intact:
\* nothing was altered and neither socket is shut
Linked ==
    /\ tampered = 0
    /\ \A s \in Sides :
          /\ ~shut[s]
          /\ IsSome(builder[s]) /\ IsSome(B(s).transport_state)

\* C12: rekey synchrony.  Between two sessions that completed the
\* handshake over an intact stream, when the peer has received all N
\* commands a side has sent, the side's outgoing cipher (key generation and
\* nonce) equals the peer's incoming cipher; while commands are in flight
\* the peer's incoming cipher is the one the next frame was encrypted
\* under, and the peer's next recv_command succeeds and yields the command
\* sent.
C12_RekeySynchrony ==
    Linked =>
        \A s \in Sides :
            LET r == Peer(s)
                k == Len(rcvd[r])
            IN
            /\ k = Len(sent[s]) => TxOf(builder, s) = RxOf(builder, r)
            /\ k < Len(sent[s]) =>
                  /\ RxOf(builder, r).key = Frames(s)[2 * k + 1].key
                  /\ RxOf(builder, r).n = Frames(s)[2 * k + 1].n
                  /\ \A bump \in BOOLEAN :
                        LET res == recv_command(B(r), stream[InDir(r)], r, bump) IN
                        /\ res.r = "Ok"
                        /\ res.body = Some(sent[s][k + 1])
                        /\ res.cmd = Command_from_bytes(sent[s][k + 1]).cmd

\* One command has gone each way and been received, and both ciphers of
\* each direction have been rekeyed once.
C12_Witness ==
    /\ Linked
    /\ \A s \in Sides :
          /\ Len(sent[s]) = 1 /\ rcvd[Peer(s)] = sent[s]
          /\ TxOf(builder, s).key.gen = 1
          /\ TxOf(builder, s) = RxOf(builder, Peer(s))

\* the positions in the stream st of the transport frames that were altered
\* in flight and have been read
AlteredRead(st) ==
    {i \in 1..Len(st.segs) :
        /\ IsTransport(st.segs[i]) /\ ~st.segs[i].ok
        /\ SegStart(st.segs, i) < st.rd}

\* the number of transport frames in st before position i
FramesBefore(st, i) == Len(SelectSeq(SubSeq(st.segs, 1, i - 1), IsTransport))

\* C13: tamper detection is terminal.  The recv_command that reads an
\* altered length frame or body frame returns DecryptFail; that call and
\* every later recv_command of the session return no command, do not
\* rekey the incoming cipher and accept no frame: the commands received
\* are commands sent before the altered frame.
C13_TamperTerminal ==
    /\ [](\A r \in Sides : \A i \in AlteredRead(stream[InDir(r)]) :
              2 * Len(rcvd[r]) <= FramesBefore(stream[InDir(r)], i))
    /\ [][\A r \in Sides :
            LET st  == stream[InDir(r)]
                st1 == stream'[InDir(r)]
            IN
            (st1.rd # st.rd /\ AlteredRead(st1) # {}) =>
                /\ ret'[r].r # "Ok"
                /\ rcvd'[r] = rcvd[r]
                /\ RxOf(builder', r).key = RxOf(builder, r).key
                /\ TxOf(builder', r) = TxOf(builder, r)
                /\ (AlteredRead(st) = {} /\ ~shut[r]) =>
                      ret'[r].err = "DecryptFail"]_vars

\* The body frame of the first of two commands was altered: the responder
\* has read it and gone on to read the second pair, and accepted neither.
C13_Witness ==
    /\ Len(sent["I"]) = 2 /\ rcvd["R"] = <<>>
    /\ ~Frames("I")[2].ok /\ Frames("I")[1].ok
    /\ stream["c2s"].rd > EndOfPair("I", 1)
    /\ RxOf(builder, "R").key.gen = 0
    /\ ret["R"] = Ret("recv_command", "Err", "DecryptFail", NoCommand)
    /\ ~shut["R"] /\ ~shut["I"]

\* payload sizes of a SendPacket on either side of the two ceilings
SizeProbes ==
    { NOISE_MESSAGE_MAX_SIZE - MAC_SIZE - 8, NOISE_MESSAGE_MAX_SIZE - MAC_SIZE - 7,
      MAX_MSG_LEN - MAC_SIZE - 8, MAX_MSG_LEN - MAC_SIZE - 7 }

TooBig(cmd) ==
    \/ MAC_SIZE + BLen(Command_to_vec(cmd)) > MAX_MSG_LEN
    \/ MAC_SIZE + BLen(Command_to_vec(cmd)) > NOISE_MESSAGE_MAX_SIZE

\* C14: size ceilings on send.  send_command for a command whose
\* MAC_SIZE + len(command bytes) exceeds MAX_MSG_LEN or
\* NOISE_MESSAGE_MAX_SIZE fails with InvalidMessageSize, hands nothing to
\* the stream and leaves the builder (so the outgoing cipher) as it was;
\* a command at the ceiling is sent.  In every step in which a
\* send_command returned InvalidMessageSize the streams, the builders and
\* the commands sent are unchanged.
C14_SizeCeilings ==
    /\ [](\A s \in Sides :
            (IsSome(builder[s]) /\ IsSome(B(s).transport_state)) =>
               \A n \in SizeProbes, wok \in BOOLEAN :
                  LET cmd == SendPacket(n)
                      res == send_command(B(s), cmd, wok)
                  IN  /\ TooBig(cmd) =>
                            /\ res.r = "InvalidMessageSize"
                            /\ res.out = <<>>
                            /\ res.b = B(s)
                      /\ (~TooBig(cmd) /\ wok) =>
                            /\ res.r = "Ok"
                            /\ res.out[2].len = MAC_SIZE + BLen(Command_to_vec(cmd)))
    /\ [][\A h \in Handles :
            (ops'[h] # ops[h] /\ ret'[h].err = "InvalidMessageSize") =>
                /\ stream' = stream
                /\ builder' = builder
                /\ sent' = sent]_vars

\* The initiator's first send_command was given a command above the
\* ceiling: nothing is on the stream after message 3 and its outgoing
\* cipher is the one the handshake left.
C14_Witness ==
    /\ ret["I"] = Ret("send_command", "Err", "InvalidMessageSize", NoCommand)
    /\ ops["I"] = 1 /\ sent["I"] = <<>> /\ Frames("I") = <<>>
    /\ TxOf(builder, "I").key.gen = 0 /\ TxOf(builder, "I").n = 0

\* what a step of finalize_handshake by the responder's handle h does
FinalizeSends(h) ==
    LET s == Side(h) IN
    /\ rcvd' = rcvd /\ stream'[InDir(s)] = stream[InDir(s)]
    /\ ret'[h].op = "finalize_handshake" /\ ret'[h].r \in {"Ok", "panic"}
    /\ ret'[h].r = "Ok" =>
          /\ sent'[s] = Append(sent[s], Command_to_vec(NoOp))
          /\ Len(Frames(s)') = Len(Frames(s)) + 2
          /\ sent'[Peer(s)] = sent[Peer(s)]
    /\ ret'[h].r = "panic" => sent' = sent /\ stream' = stream

\* what a step of finalize_handshake by the initiator's handle h does
FinalizeReceives(h) ==
    LET s   == Side(h)
        got == Command_from_bytes(Last(rcvd'[s]))
    IN
    /\ sent' = sent /\ stream'[OutDir(s)] = stream[OutDir(s)]
    /\ rcvd'[s] = rcvd[s] \/ RecvOk(s)
    /\ ret'[h].op = "finalize_handshake"
    /\ ret'[h].r = "Ok" <=> (RecvOk(s) /\ got.ok /\ got.cmd = NoOp)
    /\ (ret'[h].r = "Err" /\ ret'[h].err = "InvalidHandshakeFinalize")
          <=> (RecvOk(s) /\ got.ok /\ got.cmd # NoOp)
    /\ ret'[h].r \in {"Ok", "Err", "panic"}
    /\ ret'[h].r = "Err" => ret'[h].err = "InvalidHandshakeFinalize"

\* C15: handshake finalization.  After into_transport_mode the
\* responder's finalize_handshake sends exactly one NoOp and reads
\* nothing; the initiator's finalize_handshake receives exactly one
\* command and writes nothing, returns Ok iff that command is NoOp and
\* InvalidHandshakeFinalize iff it is another command (when no command can
\* be received or sent the unwrap panics).
C15_Finalize ==
    [][\A h \in Handles :
         FinalizeHandshake(h) =>
            IF session[h].is_initiator THEN FinalizeReceives(h)
                                       ELSE FinalizeSends(h)]_vars

\* Both sides have finalized: one NoOp has gone from the responder to the
\* initiator and nothing the other way.
C15_Witness ==
    /\ ret["R"] = Ret("finalize_handshake", "Ok", "none", NoCommand)
    /\ ret["I"] = Ret("finalize_handshake", "Ok", "none", NoCommand)
    /\ sent["R"] = << Command_to_vec(NoOp) >> /\ rcvd["I"] = sent["R"]
    /\ sent["I"] = <<>> /\ rcvd["R"] = <<>>
    /\ Len(Frames("R")) = 2 /\ Frames("I") = <<>>

(***************************************************************************)
(* An honest run to completion (sync.rs 207-283, example main 52-76): the  *)
(* initiator holds the responder's real key, the responder's               *)
(* authenticator admits the initiator, nobody alters the stream, and each  *)
(* thread calls initialize, into_transport_mode, finalize_handshake, then  *)
(* sends one command, receives one and closes.  Each thread keeps running. *)
(***************************************************************************)
HonestRuns ==
    {run \in Runs :
        /\ run.ic.peer_public_key = run.rc.authentication_key
        /\ is_peer_valid(run.ic.authenticator,
                         [additional_data |-> run.rc.additional_data,
                          public_key |-> run.rc.authentication_key]).ok
        /\ is_peer_valid(run.rc.authenticator,
                         [additional_data |-> run.ic.additional_data,
                          public_key |-> run.ic.authentication_key]).ok}

InitLive ==
    /\ \E run \in HonestRuns : SessionInit(run.ic, run.rc) /\ clock = run.now
    /\ auth = ClientAuth("kr")
    /\ calls = <<>>

LiveIntoTransportMode(h) == pc[h] = "init_ok" /\ IntoTransportMode(h)

LiveCommands == {MessageEmpty(1234567), NoOp}

LiveSend(h) ==
    /\ pc[h] = "transport"
    /\ ret[h] = Ret("finalize_handshake", "Ok", "none", NoCommand)
    /\ \E cmd \in LiveCommands : Send(h, cmd, FALSE)

LiveRecv(h) ==
    /\ pc[h] = "transport"
    /\ ret[h] = Ret("send_command", "Ok", "none", NoCommand)
    /\ Recv(h, FALSE)

LiveClose(h) ==
    /\ ret[h].op = "recv_command" /\ ret[h].r = "Ok"
    /\ Close(h)

\* the thread that owns handle h takes its next step
Thread(h) ==
    \/ ClientHandshake1(h)
    \/ ClientHandshake2(h)
    \/ ClientHandshake3(h)
    \/ ServerHandshake1(h)
    \/ ServerHandshake2(h)
    \/ ServerHandshake3(h)
    \/ LiveIntoTransportMode(h)
    \/ FinalizeHandshake(h)
    \/ LiveSend(h)
    \/ LiveRecv(h)
    \/ LiveClose(h)

NextLive ==
    \/ \E h \in Handles : ClientHandshake1(h)
    \/ \E h \in Handles : ClientHandshake2(h)
    \/ \E h \in Handles : ClientHandshake3(h)
    \/ \E h \in Handles : ServerHandshake1(h)
    \/ \E h \in Handles : ServerHandshake2(h)
    \/ \E h \in Handles : ServerHandshake3(h)
    \/ \E h \in Handles : LiveIntoTransportMode(h)
    \/ \E h \in Handles : FinalizeHandshake(h)
    \/ \E h \in Handles : LiveSend(h)
    \/ \E h \in Handles : LiveRecv(h)
    \/ \E h \in Handles : LiveClose(h)

SpecLive ==
    /\ InitLive /\ [][NextLive]_vars
    /\ \A h \in Handles : WF_vars(Thread(h))

\* both threads have run their whole script: the handshake, the NoOp of
\* finalize_handshake, and one command each way, received as sent
Completed ==
    /\ \A h \in Handles : pc[h] = "transport" /\ ret[h].op = "close"
    /\ Len(sent["R"]) = 2 /\ sent["R"][1] = Command_to_vec(NoOp)
    /\ Len(sent["I"]) = 1
    /\ rcvd["I"] = sent["R"] /\ rcvd["R"] = sent["I"]

\* a thread of the run has panicked
Panicked == \E h \in Handles : pc[h] = "panicked"

\* C16: liveness of an honest run.  With the responder's real key on the
\* initiator, an authenticator on the responder that admits the initiator
\* and an intact ordered stream, both sides eventually complete
\* initialize, into_transport_mode and finalize_handshake, and the command
\* each then sends is eventually received by the other.
C16_HonestRunCompletes == <>Completed

\* the same, unless a thread panics on the way
C16_CompletesOrPanics == <>(Completed \/ Panicked)

(***************************************************************************)
(* Clones of a Session in transport phase (sync.rs 43-53) and the steps of *)
(* send_command, recv_command and close between which another thread can   *)
(* run: every lock().unwrap() of the shared builder is taken and released  *)
(* within one statement (sync.rs 142, 144, 154, 159, 161, 167-169), and    *)
(* the reads and the write of the stream are made outside of it.  Here     *)
(* transport_builder holds a reference (the Arc) into builder.             *)
(***************************************************************************)
CHandles == {"I", "R", "Rc"}

Refs == {"I", "R", "Rc"}

Ref(h) == Unwrap(session[h].transport_builder)

\* the builder handle h locks
TB(h) == Unwrap(builder[Ref(h)])

SetTB(h, b) == builder' = [builder EXCEPT ![Ref(h)] = Some(b)]

\* The two builders and the streams after the three handshake messages and
\* into_transport_mode on both sides (messages.rs 479-555).
Handshaken(run) ==
    LET i0 == Unwrap(MessageBuilder_new(run.ic, TRUE).b)
        r0 == Unwrap(MessageBuilder_new(run.rc, FALSE).b)
        c1 == client_handshake1(i0, NOISE_HANDSHAKE_MESSAGE1_SIZE - PROLOGUE_SIZE)
        i1 == sent_client_handshake1(c1.b)
        s1 == received_client_handshake1(r0, c1.out, run.now["R"],
                                         NOISE_HANDSHAKE_MESSAGE2_SIZE)
        r1 == sent_server_handshake1(s1.b)
        c2 == received_server_handshake1(i1, s1.out, run.now["I"], FALSE)
        c3 == client_handshake2(c2.b, NOISE_HANDSHAKE_MESSAGE3_SIZE)
        i3 == sent_client_handshake2(c3.b)
        s3 == received_client_handshake2(r1, c3.out)
    IN  [I   |-> into_transport_mode(i3).b,
         R   |-> into_transport_mode(s3.b).b,
         c2s |-> << c1.out, c3.out >>,
         s2c |-> << s1.out >>]

\* the configurations of reader_writer_thread_test (sync.rs 286-305)
CloneRuns == {run \in HonestRuns : run.rc.authenticator.variant = "Provider"
                                     /\ run.now["I"] >= run.now["R"]}

InitClone ==
    /\ \E run \in CloneRuns :
          LET hs == Handshaken(run) IN
          /\ builder = [r \in Refs |-> CASE r = "I" -> hs.I [] r = "R" -> hs.R
                                         [] OTHER -> None]
          /\ stream = [d \in {"c2s", "s2c"} |->
                          [segs |-> hs[d], rd |-> SumLen(hs[d])]]
          /\ clock = run.now
          /\ auth_log = [s \in Sides |->
                            << [key |-> IF s = "I" THEN run.rc.authentication_key
                                                   ELSE run.ic.authentication_key,
                                ok |-> TRUE] >>]
    /\ session = [h \in CHandles |->
                     [reader_tcp_stream |-> h # "Rc", writer_tcp_stream |-> h # "Rc",
                      is_initiator |-> h = "I", handshake_builder |-> FALSE,
                      transport_builder |-> IF h = "Rc" THEN None ELSE Some(h)]]
    /\ pc = [h \in CHandles |-> IF h = "Rc" THEN "absent" ELSE "transport"]
    /\ ret = [h \in CHandles |->
                 IF h = "Rc" THEN Ret("none", "Ok", "none", NoCommand)
                 ELSE Ret("into_transport_mode", "Ok", "none", NoCommand)]
    /\ shut = [s \in Sides |-> FALSE]
    /\ local = [h \in CHandles |-> Local0]
    /\ ops = [h \in CHandles |-> 0]
    /\ tampered = 0
    /\ path = [s \in Sides |-> RolePath(s)]
    /\ sent = [s \in Sides |-> <<>>]
    /\ rcvd = [s \in Sides |-> <<>>]
    /\ auth = ClientAuth("kr")
    /\ calls = <<>>

\* Session::clone: the sockets are duplicated, the Arc is cloned
Session_clone(sess) ==
    [reader_tcp_stream |-> sess.reader_tcp_stream,
     writer_tcp_stream |-> sess.writer_tcp_stream,
     is_initiator      |-> sess.is_initiator,
     handshake_builder |-> FALSE,
     transport_builder |-> sess.transport_builder]

\* a clone that copies the builder instead of sharing it
Clone_deep(h, c) ==
    /\ pc[h] = "transport" /\ pc[c] = "absent"
    /\ session' = [session EXCEPT ![c] =
                      [Session_clone(session[h]) EXCEPT !.transport_builder = Some(c)]]
    /\ builder' = [builder EXCEPT ![c] = builder[Ref(h)]]
    /\ pc' = [pc EXCEPT ![c] = "transport"]
    /\ ret' = [ret EXCEPT ![c] = Ret("clone", "Ok", "none", NoCommand)]
    /\ UNCHANGED << stream, shut, local, ops, tampered, path, auth_log,
                    sent, rcvd, clock, auth, calls >>

\* let c = h.clone()
Clone(h, c) ==
    /\ pc[h] = "transport" /\ pc[c] = "absent"
    /\ session' = [session EXCEPT ![c] = Session_clone(session[h])]
    /\ pc' = [pc EXCEPT ![c] = "transport"]
    /\ ret' = [ret EXCEPT ![c] = Ret("clone", "Ok", "none", NoCommand)]
    /\ UNCHANGED << builder, stream, shut, local, ops, tampered, path, auth_log,
                    sent, rcvd, clock, auth, calls >>

CloneCommands == {NoOp, MessageEmpty(258)}

CSendsLeft == SumOps(CHandles) < MaxOps

\* send_command, sync.rs 135-142: the size check and encrypt_message
SendEncrypt(h) ==
    /\ pc[h] = "transport" /\ CSendsLeft
    /\ ops' = [ops EXCEPT ![h] = @ + 1]
    /\ \E cmd \in CloneCommands :
         LET ct == Command_to_vec(cmd) IN
         IF MAC_LEN + BLen(ct) > MAX_MSG_LEN
         THEN /\ Return(h, "send_command", "InvalidMessageSize", NoCommand, FALSE, FALSE)
              /\ UNCHANGED << builder, local >>
         ELSE \E enc \in {encrypt_message(TB(h), ct)} :
                /\ SetTB(h, enc.b)
                /\ IF enc.r # "Ok"
                   THEN /\ Return(h, "send_command", enc.r, NoCommand, FALSE, FALSE)
                        /\ UNCHANGED local
                   ELSE /\ pc' = [pc EXCEPT ![h] = "send_rekey"]
                        /\ local' = [local EXCEPT ![h].msg = enc.out]
                        /\ UNCHANGED << ret, shut >>
    /\ UNCHANGED << session, stream, tampered, path, auth_log, sent, rcvd,
                    clock, auth, calls >>

\* send_command, sync.rs 144: rekey_outgoing
SendRekey(h) ==
    /\ pc[h] = "send_rekey"
    /\ SetTB(h, rekey_outgoing(TB(h)))
    /\ pc' = [pc EXCEPT ![h] = "send_write"]
    /\ UNCHANGED << session, stream, shut, local, ret, ops, tampered, path,
                    auth_log, sent, rcvd, clock, auth, calls >>

\* send_command, sync.rs 146-147: write_all of the two frames
SendWrite(h) ==
    /\ pc[h] = "send_write"
    /\ \E wok \in WriteOks(Side(h)) :
         /\ stream' = IF wok THEN Written(Side(h), local[h].msg) ELSE stream
         /\ sent' = [sent EXCEPT ![Side(h)] =
                        IF wok THEN Append(@, local[h].msg[2].pt) ELSE @]
         /\ Return(h, "send_command", IF wok THEN "Ok" ELSE "IoError", NoCommand,
                   FALSE, ~wok)
    /\ local' = [local EXCEPT ![h] = Local0]
    /\ UNCHANGED << builder, session, ops, tampered, path, auth_log, rcvd,
                    clock, auth, calls >>

\* recv_command, sync.rs 152-154: read the length frame and decrypt it
RecvHeader(h) ==
    LET s  == Side(h)
        st == stream[InDir(s)]
        n  == MAC_LEN + 4
    IN
    /\ pc[h] = "transport"
    /\ ReadExactOn(st, s, n) # "block"
    /\ stream' = [stream EXCEPT ![InDir(s)] = ConsumedOn(st, n)]
    /\ IF ReadExactOn(st, s, n) = "eof"
       THEN /\ Return(h, "recv_command", "IoError", NoCommand, FALSE, FALSE)
            /\ UNCHANGED << builder, local >>
       ELSE \E bump \in BOOLEAN :
            \E hdr \in {decrypt_message_header(TB(h), BlobAt(st, n), bump)} :
              /\ SetTB(h, hdr.b)
              /\ IF hdr.r # "Ok"
                 THEN /\ Return(h, "recv_command", hdr.r, NoCommand, FALSE, FALSE)
                      /\ UNCHANGED local
                 ELSE /\ pc' = [pc EXCEPT ![h] = "recv_body"]
                      /\ local' = [local EXCEPT ![h].msg = hdr.out]
                      /\ UNCHANGED << ret, shut >>
    /\ UNCHANGED << session, ops, tampered, path, auth_log, sent, rcvd,
                    clock, auth, calls >>

\* recv_command, sync.rs 157-159: read the body frame and decrypt it
RecvBody(h) ==
    LET s  == Side(h)
        st == stream[InDir(s)]
        n  == local[h].msg
    IN
    /\ pc[h] = "recv_body"
    /\ ReadExactOn(st, s, n) # "block"
    /\ stream' = [stream EXCEPT ![InDir(s)] = ConsumedOn(st, n)]
    /\ IF ReadExactOn(st, s, n) = "eof"
       THEN /\ Return(h, "recv_command", "IoError", NoCommand, FALSE, FALSE)
            /\ local' = [local EXCEPT ![h] = Local0]
            /\ UNCHANGED builder
       ELSE \E bump \in BOOLEAN :
            \E dec \in {decrypt_message(TB(h), BlobAt(st, n), bump)} :
              /\ SetTB(h, dec.b)
              /\ IF dec.r # "Ok"
                 THEN /\ Return(h, "recv_command", dec.r, NoCommand, FALSE, FALSE)
                      /\ local' = [local EXCEPT ![h] = Local0]
                 ELSE /\ pc' = [pc EXCEPT ![h] = "recv_rekey"]
                      /\ local' = [local EXCEPT ![h].msg = dec.out]
                      /\ UNCHANGED << ret, shut >>
    /\ UNCHANGED << session, ops, tampered, path, auth_log, sent, rcvd,
                    clock, auth, calls >>

\* recv_command, sync.rs 161-163: rekey_incoming and Command::from_bytes
RecvRekey(h) ==
    /\ pc[h] = "recv_rekey"
    /\ SetTB(h, rekey_incoming(TB(h)))
    /\ rcvd' = [rcvd EXCEPT ![Side(h)] = Append(@, local[h].msg)]
    /\ LET d == Command_from_bytes(local[h].msg) IN
       Return(h, "recv_command", IF d.ok THEN "Ok" ELSE "CommandError", d.cmd,
              FALSE, FALSE)
    /\ local' = [local EXCEPT ![h] = Local0]
    /\ UNCHANGED << session, stream, ops, tampered, path, auth_log, sent,
                    clock, auth, calls >>

\* a handle of the side of h has called close
Closing(h) ==
    \/ shut[Side(h)]
    \/ \E g \in CHandles :
          Side(g) = Side(h) /\ pc[g] \in {"close_rekey_incoming", "close_wipe"}

\* close, sync.rs 167: rekey_outgoing (the responder's session is closed
\* once, through either handle, as in sync.rs 331-337)
CloseRekeyOutgoing(h) ==
    /\ pc[h] = "transport" /\ ~session[h].is_initiator /\ ~Closing(h)
    /\ SetTB(h, rekey_outgoing(TB(h)))
    /\ pc' = [pc EXCEPT ![h] = "close_rekey_incoming"]
    /\ UNCHANGED << session, stream, shut, local, ret, ops, tampered, path,
                    auth_log, sent, rcvd, clock, auth, calls >>

\* close, sync.rs 168: rekey_incoming
CloseRekeyIncoming(h) ==
    /\ pc[h] = "close_rekey_incoming"
    /\ SetTB(h, rekey_incoming(TB(h)))
    /\ pc' = [pc EXCEPT ![h] = "close_wipe"]
    /\ UNCHANGED << session, stream, shut, local, ret, ops, tampered, path,
                    auth_log, sent, rcvd, clock, auth, calls >>

\* a close that wipes the builder but leaves the socket open
CloseWipe_no_shutdown(h) ==
    /\ pc[h] = "close_wipe"
    /\ SetTB(h, wipe(TB(h)))
    /\ pc' = [pc EXCEPT ![h] = "transport"]
    /\ ret' = [ret EXCEPT ![h] = Ret("close", "Ok", "none", NoCommand)]
    /\ UNCHANGED << session, stream, shut, local, ops, tampered, path, auth_log,
                    sent, rcvd, clock, auth, calls >>

\* close, sync.rs 169-171: wipe, and shutdown of the socket
CloseWipe(h) ==
    /\ pc[h] = "close_wipe"
    /\ SetTB(h, wipe(TB(h)))
    /\ shut' = [shut EXCEPT ![Side(h)] = TRUE]
    /\ pc' = [pc EXCEPT ![h] = "transport"]
    /\ ret' = [ret EXCEPT ![h] = Ret("close", "Ok", "none", NoCommand)]
    /\ UNCHANGED << session, stream, local, ops, tampered, path, auth_log,
                    sent, rcvd, clock, auth, calls >>

NextClone ==
    \/ Clone("R", "Rc")
    \/ \E h \in CHandles : SendEncrypt(h)
    \/ \E h \in CHandles : SendRekey(h)
    \/ \E h \in CHandles : SendWrite(h)
    \/ \E h \in CHandles : RecvHeader(h)
    \/ \E h \in CHandles : RecvBody(h)
    \/ \E h \in CHandles : RecvRekey(h)
    \/ \E h \in CHandles : CloseRekeyOutgoing(h)
    \/ \E h \in CHandles : CloseRekeyIncoming(h)
    \/ \E h \in CHandles : CloseWipe(h)

SpecClone == InitClone /\ [][NextClone]_vars

\* C17: a single send is atomic with respect to the shared builder.  While
\* a send_command of one handle is between its encrypt_message and its
\* rekey_outgoing, no other handle changes the outgoing cipher; the frames
\* are on the stream in the order in which they were encrypted; and the
\* peer decrypts every command (as long as the session is not being
\* closed).
C17_SendAtomic ==
    /\ [][\A h \in CHandles :
            (pc[h] = "send_rekey" /\ pc'[h] = "send_rekey") =>
                TxOf(builder', Ref(h)) = TxOf(builder, Ref(h))]_vars
    /\ [](\A s \in Sides : \A j, k \in 1..Len(Frames(s)) :
              j < k => \/ Frames(s)[j].key.gen < Frames(s)[k].key.gen
                       \/ /\ Frames(s)[j].key.gen = Frames(s)[k].key.gen
                          /\ Frames(s)[j].n < Frames(s)[k].n)
    /\ [](~Closing("R") => ret["I"].err # "DecryptFail")

\* C18: a single receive is atomic with respect to the shared builder.
\* While a recv_command of one handle is between its header decrypt and its
\* rekey_incoming, no other handle reads from the stream and no other
\* handle (receiving or closing) changes the incoming cipher.
C18_RecvAtomic ==
    [][\A h \in CHandles :
         (pc[h] \in {"recv_body", "recv_rekey"} /\ pc'[h] = pc[h]) =>
            /\ RxOf(builder', Ref(h)) = RxOf(builder, Ref(h))
            /\ stream'[InDir(Side(h))].rd = stream[InDir(Side(h))].rd]_vars

(***************************************************************************)
(* One reader and one writer (reader_writer_thread_test, sync.rs 285-399): *)
(* the responder's session is cloned, the clone only calls recv_command    *)
(* and the original only send_command; the initiator is one thread that    *)
(* calls both.                                                             *)
(***************************************************************************)
Writers == {"R", "I"}

Readers == {"Rc", "I"}

NextRW ==
    \/ Clone("R", "Rc")
    \/ \E h \in Writers : SendEncrypt(h)
    \/ \E h \in Writers : SendRekey(h)
    \/ \E h \in Writers : SendWrite(h)
    \/ \E h \in Readers : RecvHeader(h)
    \/ \E h \in Readers : RecvBody(h)
    \/ \E h \in Readers : RecvRekey(h)

SpecRW == InitClone /\ [][NextRW]_vars

\* the handles of side s that exist
HandlesOf(s) == {h \in CHandles : Side(h) = s /\ pc[h] # "absent"}

\* no handle of side s is inside a send_command
NotSending(s) == \A h \in HandlesOf(s) : pc[h] \notin {"send_rekey", "send_write"}

\* no handle of side s is inside a recv_command
NotReceiving(s) == \A h \in HandlesOf(s) : pc[h] \notin {"recv_body", "recv_rekey"}

\* C19: one reader plus one writer.  Under every interleaving of the
\* reader's and the writer's steps no call fails, each peer has received
\* a prefix of what the other side sent, in order, and each direction is
\* in sync: between calls the receiver's incoming cipher is the sender's
\* outgoing cipher when everything sent was received, and otherwise the
\* one under which the next frame on the stream was encrypted.
C19_ReaderWriter ==
    /\ \A h \in CHandles : ret[h].r = "Ok"
    /\ \A s \in Sides :
          LET r == Peer(s)
              k == Len(rcvd[r])
          IN
          /\ IsPrefix(rcvd[r], sent[s])
          /\ Len(Frames(s)) = 2 * Len(sent[s])
          /\ (NotReceiving(r) /\ NotSending(s) /\ k = Len(sent[s])) =>
                TxOf(builder, s) = RxOf(builder, r)
          /\ (NotReceiving(r) /\ k < Len(sent[s])) =>
                /\ RxOf(builder, r).key = Frames(s)[2 * k + 1].key
                /\ RxOf(builder, r).n = Frames(s)[2 * k + 1].n
                /\ stream[OutDir(s)].rd = EndOfPair(s, k)

\* The writer has sent a command and the initiator received it, and the
\* reader has received the command the initiator sent.
C19_Witness ==
    /\ ops["R"] = 1 /\ ops["Rc"] = 0 /\ ops["I"] = 1
    /\ ret["R"] = Ret("send_command", "Ok", "none", NoCommand)
    /\ ret["Rc"].op = "recv_command" /\ ret["Rc"].r = "Ok"
    /\ ret["I"].op = "recv_command" /\ ret["I"].r = "Ok"
    /\ rcvd["I"] = sent["R"] /\ rcvd["R"] = sent["I"]
    /\ TxOf(builder, "R").key.gen = 1 /\ RxOf(builder, "R").key.gen = 1

\* Session::clock_skew
clock_skew(h) == TB(h).clock_skew

\* Session::from_client
from_client(h) == is_peer_client(TB(h).authenticator)

\* C20: a clone taken in transport phase shares the one transport builder
\* with the original.  After any sequence of send_command, recv_command
\* and close steps on either handle, both handles observe the same
\* outgoing and incoming cipher state, the same clock_skew and the same
\* authenticator flags.
C20_CloneShares ==
    \A h, c \in CHandles :
        (Side(h) = Side(c) /\ pc[h] # "absent" /\ pc[c] # "absent") =>
            /\ TB(h).transport_state = TB(c).transport_state
            /\ clock_skew(h) = clock_skew(c)
            /\ from_client(h) = from_client(c)
            /\ TB(h).authenticator = TB(c).authenticator

\* The original has sent a command, the clone has received one, and the
\* session was closed through the original.
C20_Witness ==
    /\ pc["Rc"] = "transport" /\ ops["R"] = 1
    /\ ret["Rc"].op = "recv_command" /\ ret["Rc"].r = "Ok"
    /\ ret["R"] = Ret("close", "Ok", "none", NoCommand)
    /\ Unwrap(TB("Rc").transport_state).tx.key.gen = 2
    /\ Unwrap(TB("Rc").transport_state).rx.key.gen = 2
    /\ from_client("Rc")

\* the generation of a cipher's key: the number of rekeys it has had
Gen(c) == c.key.gen

\* C21: close() on a session in transport phase rekeys the outgoing cipher
\* once, then the incoming cipher once, then empties the builder's
\* additional_data and shuts the stream down; once the stream is shut down
\* every step of a send_command or recv_command on that session or on a
\* clone of it that touches the stream ends the call with an error, writes
\* nothing and delivers no command.
C21_Close ==
    [][\A h \in CHandles :
        /\ (pc[h] = "transport" /\ pc'[h] = "close_rekey_incoming") =>
              /\ Gen(TxOf(builder', Ref(h))) = Gen(TxOf(builder, Ref(h))) + 1
              /\ RxOf(builder', Ref(h)) = RxOf(builder, Ref(h))
              /\ shut' = shut
        /\ (pc[h] = "close_rekey_incoming" /\ pc'[h] = "close_wipe") =>
              /\ Gen(RxOf(builder', Ref(h))) = Gen(RxOf(builder, Ref(h))) + 1
              /\ TxOf(builder', Ref(h)) = TxOf(builder, Ref(h))
              /\ shut' = shut
        /\ (pc[h] = "close_wipe" /\ pc'[h] = "transport") =>
              /\ Unwrap(builder'[Ref(h)]).additional_data = <<>>
              /\ Unwrap(builder'[Ref(h)]).transport_state = TB(h).transport_state
              /\ shut'[Side(h)]
              /\ stream' = stream
        /\ (shut[Side(h)] /\ pc[h] = "transport") =>
              /\ shut'[Side(h)]
              /\ pc'[h] \in {"transport", "send_rekey"}
              /\ ret'[h] # ret[h] =>
                    /\ ret'[h].op = "recv_command"
                    /\ ret'[h].r = "Err" /\ ret'[h].cmd = NoCommand
                    /\ rcvd' = rcvd
        /\ (shut[Side(h)] /\ pc[h] = "recv_body" /\ pc'[h] # "recv_body") =>
              /\ ret'[h] = Ret("recv_command", "Err", "IoError", NoCommand)
              /\ pc'[h] = "transport" /\ rcvd' = rcvd
        /\ (shut[Side(h)] /\ pc[h] = "send_write" /\ pc'[h] # "send_write") =>
              /\ ret'[h] = Ret("send_command", "Err", "IoError", NoCommand)
              /\ pc'[h] = "transport" /\ stream' = stream /\ sent' = sent]_vars

\* The responder's session was closed while a command of the peer was
\* waiting on the stream; the clone's recv_command and the original's
\* send_command have failed, and nothing was delivered or written.
C21_Witness ==
    /\ shut["R"] /\ TB("R").additional_data = <<>>
    /\ Gen(TxOf(builder, "R")) = 2 /\ Gen(RxOf(builder, "R")) = 1
    /\ Len(sent["I"]) = 1 /\ rcvd["R"] = <<>> /\ sent["R"] = <<>>
    /\ ops["R"] = 1
    /\ ret["R"] = Ret("send_command", "Err", "IoError", NoCommand)
    /\ ret["Rc"] = Ret("recv_command", "Err", "IoError", NoCommand)

\* C22: every error is surfaced to the caller as an error value.  Whenever
\* initialize() or finalize_handshake() ends on a failure that has an error
\* value (a prologue mismatch, a Noise read or write failure, a rejection by
\* the authenticator, a failed send or receive), the call has returned that
\* error: the thread has not been aborted.
C22_ErrorsSurface ==
    \A h \in Handles :
        (ret[h].op \in {"initialize", "finalize_handshake"} /\ ret[h].err # "none") =>
            /\ ret[h].r = "Err"
            /\ pc[h] # "panicked"

\* C23: clock skew never gates admission.  Whatever the two clocks are, an
\* initiator whose authenticator has accepted the peer completes
\* received_server_handshake1 (its builder reaches ReceivedServerHandshake1)
\* and has cached clock_skew = (now - peer_unix_time) mod 2^32; the
\* responder's clock_skew stays 0.
C23_SkewNeverGates ==
    /\ IsSome(builder["R"]) => B("R").clock_skew = U32Of(0)
    /\ (auth_log["I"] # <<>> /\ Last(auth_log["I"]).ok) =>
          \E i \in 1..Len(path["I"]) : path["I"][i] = "ReceivedServerHandshake1"
    /\ (IsSome(builder["I"]) /\ B("I").state = "ReceivedServerHandshake1") =>
          B("I").clock_skew = U32WrappingSub(clock["I"], clock["R"])

\* the configurations this run can have started from, given its clocks
RunsNow == {run \in Runs : run.now = clock /\ run.ic.peer_public_key # "none"}

\* the AuthenticateMessage a handshake message carries, as its receiver
\* decodes it
AuthOf(m) == AuthenticateMessage_from_bytes(RawAuth(m.pt.b))

\* the messages of kind k written so far in direction d
Sent(d, k) ==
    {stream[d].segs[i] : i \in {j \in 1..Len(stream[d].segs) :
                                    stream[d].segs[j].kind = k}}

\* C24: the AuthenticateMessage of handshake message 3 has unix_time = 0
\* and the initiator's configured additional_data, whatever its clock
\* shows; the AuthenticateMessage of message 2 has the responder's
\* configured additional_data and the responder's clock in seconds.
C24_Timestamps ==
    /\ \A m \in Sent("c2s", "hs3") :
          /\ AuthOf(m).ok
          /\ AuthOf(m).v.unix_time = 0
          /\ \A run \in RunsNow : AuthOf(m).v.ad = run.ic.additional_data
    /\ \A m \in Sent("s2c", "hs2") :
          /\ AuthOf(m).ok
          /\ AuthOf(m).v.unix_time = clock["R"]
          /\ \A run \in RunsNow : AuthOf(m).v.ad = run.rc.additional_data

\* Both messages are on the wire, the initiator's clock showing 100 and
\* its additional_data being empty, the responder's clock showing 200.
C24_Witness ==
    /\ clock = [I |-> 100, R |-> 200]
    /\ RunsNow # {}
    /\ \E m \in Sent("c2s", "hs3") : AuthOf(m).v = [ad |-> <<>>, unix_time |-> 0]
    /\ \E m \in Sent("s2c", "hs2") : AuthOf(m).v = [ad |-> <<5>>, unix_time |-> 200]

(***************************************************************************)
(* The handshake over a connection that can break: any read_exact or       *)
(* write_all of Session::handshake (sync.rs 73, 78, 83, 88, 92, 97) can    *)
(* return an I/O error, which initialize() returns to its caller; the      *)
(* caller still owns the Session and can call into_transport_mode().       *)
(***************************************************************************)
\* The next read or write of the handshake of h fails.  A write fails after
\* the builder has produced the message to be written.
Break(h) ==
    /\ pc[h] \in {"new", "hs_read2", "hs_write3", "hs_write2", "hs_read3"}
    /\ IsSome(builder[Side(h)])
    /\ CASE pc[h] = "new" /\ session[h].is_initiator ->
              \E len \in NoiseWriteLens(0, <<>>) :
                 \E res \in {client_handshake1(B(Side(h)), len)} :
                    /\ res.r = "Ok"
                    /\ SetBuilder(Side(h), res.b)
         [] pc[h] = "hs_write3" ->
              \E len \in NoiseWriteLens(2, AuthenticateMessage_to_vec(
                            [ad |-> B(Side(h)).additional_data, unix_time |-> 0]).v) :
                 \E res \in {client_handshake2(B(Side(h)), len)} :
                    /\ res.r = "Ok"
                    /\ SetBuilder(Side(h), res.b)
         [] OTHER -> UNCHANGED << builder, path, auth_log >>
    /\ session' = [session EXCEPT ![h].reader_tcp_stream = TRUE,
                                  ![h].writer_tcp_stream = TRUE]
    /\ EndInitialize(h, "Err", "IoError", TRUE)
    /\ UNCHANGED << stream, ops, tampered, sent, rcvd, clock, auth, calls >>

NextBreak ==
    \/ \E h \in Handles : ClientHandshake1(h)
    \/ \E h \in Handles : ClientHandshake2(h)
    \/ \E h \in Handles : ClientHandshake3(h)
    \/ \E h \in Handles : ServerHandshake1(h)
    \/ \E h \in Handles : ServerHandshake2(h)
    \/ \E h \in Handles : ServerHandshake3(h)
    \/ \E h \in Handles : IntoTransportMode(h)
    \/ \E h \in Handles : Break(h)

SpecBreak == Init /\ [][NextBreak]_vars

\* C25: into_transport_mode() yields a transport-mode builder only in
\* state DataTransfer.  A builder that holds a transport state is in state
\* DataTransfer, and a builder in state DataTransfer that has not been
\* converted yet can be converted.
C25_TransportOnlyAfterHandshake ==
    \A s \in Sides :
        IsSome(builder[s]) =>
            /\ IsSome(B(s).transport_state) => B(s).state = "DataTransfer"
            /\ (B(s).state = "DataTransfer" /\ IsSome(B(s).handshake_state)) =>
                  /\ into_transport_mode(B(s)).r = "Ok"
                  /\ IsSome(Unwrap(into_transport_mode(B(s)).b).transport_state)

(***************************************************************************)
(* SpecCodec: the two codecs on their own, as their unit tests drive them  *)
(* (authentication_message_test, messages.rs 467-476; command_vector_test, *)
(* tests/command_vectors_test.rs 62-151).  Thread I encodes an             *)
(* AuthenticateMessage and decodes the bytes, thread R does the same with  *)
(* a Command; every result is unwrapped.                                   *)
(***************************************************************************)
AuthAds ==
    { <<>>, <<1, 2, 3>>,
      [i \in 1..MAX_ADDITIONAL_DATA_SIZE |-> 7],
      [i \in 1..(MAX_ADDITIONAL_DATA_SIZE + 1) |-> 7] }

AuthTimes == {0, 321, 16909060, 2147483647}

AuthInputs == {[ad |-> a, unix_time |-> t] : a \in AuthAds, t \in AuthTimes}

CodecCommands ==
    { NoOp, Disconnect, SendPacket(0), SendPacket(50),
      RetrieveMessage(258), MessageEmpty(0), MessageEmpty(16909060),
      Message(3, 258, 0), Message(255, 1, 40),
      MessageAck(1, 258, Zeros(16), 0), MessageAck(2, 7, [i \in 1..16 |-> i], 40),
      GetConsensus([hi |-> 0, lo |-> 258]), GetConsensus([hi |-> 16909060, lo |-> 1]),
      Consensus(0, 0), Consensus(9, 40) }

InitCodec ==
    /\ \E am \in AuthInputs, cmd \in CodecCommands :
          local = [I |-> [msg |-> Garbage, input |-> am, raw |-> <<>>,
                          output |-> [ad |-> <<>>, unix_time |-> 0]],
                   R |-> [msg |-> Garbage, input |-> cmd, raw |-> Raw(<<>>),
                          output |-> NoCommand]]
    /\ pc = [I |-> "auth_test", R |-> "command_test"]
    /\ ret = [h \in Handles |-> Ret("none", "Ok", "none", NoCommand)]
    /\ builder = [s \in Sides |-> None]
    /\ session = [h \in Handles |->
                     [reader_tcp_stream |-> FALSE, writer_tcp_stream |-> FALSE,
                      is_initiator |-> h = "I", handshake_builder |-> FALSE,
                      transport_builder |-> FALSE]]
    /\ stream = [d \in {"c2s", "s2c"} |-> [segs |-> <<>>, rd |-> 0]]
    /\ shut = [s \in Sides |-> FALSE]
    /\ ops = [h \in Handles |-> 0]
    /\ tampered = 0
    /\ path = [s \in Sides |-> <<>>]
    /\ auth_log = [s \in Sides |-> <<>>]
    /\ sent = [s \in Sides |-> <<>>]
    /\ rcvd = [s \in Sides |-> <<>>]
    /\ clock = [I |-> 200, R |-> 100]
    /\ auth = ClientAuth("kr")
    /\ calls = <<>>

\* let raw = auth1.to_vec().unwrap()
AuthToVec(h) ==
    /\ pc[h] = "auth_test"
    /\ \E r \in {AuthenticateMessage_to_vec(local[h].input)} :
         /\ local' = [local EXCEPT ![h].raw = r.v]
         /\ pc' = [pc EXCEPT ![h] = IF r.ok THEN "auth_encoded" ELSE "panicked"]
         /\ ret' = [ret EXCEPT ![h] =
                       IF r.ok THEN Ret("to_vec", "Ok", "none", NoCommand)
                       ELSE Ret("to_vec", "panic", "InvalidSize", NoCommand)]
    /\ UNCHANGED << builder, session, stream, shut, ops, tampered, path, auth_log,
                    sent, rcvd, clock, auth, calls >>

\* let auth2 = AuthenticateMessage::from_bytes(&raw).unwrap()
AuthFromBytes(h) ==
    /\ pc[h] = "auth_encoded"
    /\ \E r \in {AuthenticateMessage_from_bytes(local[h].raw)} :
         /\ local' = [local EXCEPT ![h].output = r.v]
         /\ pc' = [pc EXCEPT ![h] = IF r.ok THEN "auth_decoded" ELSE "panicked"]
         /\ ret' = [ret EXCEPT ![h] =
                       IF r.ok THEN Ret("from_bytes", "Ok", "none", NoCommand)
                       ELSE Ret("from_bytes", "panic", "InvalidSize", NoCommand)]
    /\ UNCHANGED << builder, session, stream, shut, ops, tampered, path, auth_log,
                    sent, rcvd, clock, auth, calls >>

\* let bytes = cmd.to_vec()
CommandToVec(h) ==
    /\ pc[h] = "command_test"
    /\ local' = [local EXCEPT ![h].raw = Command_to_vec(local[h].input)]
    /\ pc' = [pc EXCEPT ![h] = "command_encoded"]
    /\ ret' = [ret EXCEPT ![h] = Ret("to_vec", "Ok", "none", NoCommand)]
    /\ UNCHANGED << builder, session, stream, shut, ops, tampered, path, auth_log,
                    sent, rcvd, clock, auth, calls >>

\* let cmd = Command::from_bytes(&bytes).unwrap()
CommandFromBytes(h) ==
    /\ pc[h] = "command_encoded"
    /\ \E r \in {Command_from_bytes(local[h].raw)} :
         /\ local' = [local EXCEPT ![h].output = r.cmd]
         /\ pc' = [pc EXCEPT ![h] = IF r.ok THEN "command_decoded" ELSE "panicked"]
         /\ ret' = [ret EXCEPT ![h] =
                       IF r.ok THEN Ret("from_bytes", "Ok", "none", r.cmd)
                       ELSE Ret("from_bytes", "panic", "CommandError", NoCommand)]
    /\ UNCHANGED << builder, session, stream, shut, ops, tampered, path, auth_log,
                    sent, rcvd, clock, auth, calls >>

NextCodec ==
    \/ \E h \in Handles : AuthToVec(h)
    \/ \E h \in Handles : AuthFromBytes(h)
    \/ \E h \in Handles : CommandToVec(h)
    \/ \E h \in Handles : CommandFromBytes(h)

SpecCodec == InitCodec /\ [][NextCodec]_vars

\* C26: AuthenticateMessage round trip.  For every ad of at most 255 bytes
\* and every timestamp, to_vec produces exactly 260 bytes: the length
\* byte, the ad, zeros up to offset 256 and the big-endian timestamp at
\* 256..260; from_bytes of these bytes succeeds and returns the same ad
\* and timestamp.
C26_AuthRoundTrip ==
    LET am  == local["I"].input
        raw == local["I"].raw
    IN
    Len(am.ad) <= MAX_ADDITIONAL_DATA_SIZE =>
        /\ pc["I"] \in {"auth_test", "auth_encoded", "auth_decoded"}
        /\ pc["I"] \in {"auth_encoded", "auth_decoded"} =>
              /\ Len(raw) = 260
              /\ raw[1] = Len(am.ad)
              /\ SubSeq(raw, 2, 1 + Len(am.ad)) = am.ad
              /\ \A i \in (2 + Len(am.ad))..256 : raw[i] = 0
              /\ SubSeq(raw, 257, 260) = BE32(am.unix_time)
        /\ pc["I"] = "auth_decoded" => local["I"].output = am

\* C27: wire sizes.  Every handshake message 1 on the wire has
\* NOISE_HANDSHAKE_MESSAGE1_SIZE = 1601 bytes, every message 2 has
\* NOISE_HANDSHAKE_MESSAGE2_SIZE = 1940 bytes, every message 3 has
\* NOISE_HANDSHAKE_MESSAGE3_SIZE = 328 bytes and every transport length
\* frame NOISE_MESSAGE_HEADER_SIZE = 20 bytes; the payload encrypted into
\* messages 2 and 3 has exactly AUTH_MESSAGE_SIZE = 260 bytes.
C27_WireSizes ==
    /\ \A m \in Sent("c2s", "hs1") :
          m.len = NOISE_HANDSHAKE_MESSAGE1_SIZE /\ m.len = 1601
    /\ \A m \in Sent("s2c", "hs2") :
          /\ m.len = NOISE_HANDSHAKE_MESSAGE2_SIZE /\ m.len = 1940
          /\ Len(m.pt.b) = AUTH_MESSAGE_SIZE /\ Len(m.pt.b) = 260
    /\ \A m \in Sent("c2s", "hs3") :
          /\ m.len = NOISE_HANDSHAKE_MESSAGE3_SIZE /\ m.len = 328
          /\ Len(m.pt.b) = AUTH_MESSAGE_SIZE /\ Len(m.pt.b) = 260
    /\ \A m \in Sent("c2s", "len") \cup Sent("s2c", "len") :
          m.len = NOISE_MESSAGE_HEADER_SIZE /\ m.len = 20

\* the type tag of each command variant
TagOf(cmd) ==
    CASE cmd.name = "NoOp"            -> 0
      [] cmd.name = "Disconnect"      -> 1
      [] cmd.name = "SendPacket"      -> 2
      [] cmd.name = "RetrieveMessage" -> 16
      [] cmd.name = "MessageEmpty"    -> 17
      [] cmd.name = "Message"         -> 18
      [] cmd.name = "MessageAck"      -> 19
      [] cmd.name = "GetConsensus"    -> 32
      [] cmd.name = "Consensus"       -> 33

\* C28: Command codec round trip and framing.  For every command variant
\* to_vec produces the one-byte type tag, three zero reserved bytes, a
\* big-endian u32 body length N and then exactly N body bytes, and
\* from_bytes of these bytes succeeds and returns the same command; NoOp
\* and Disconnect decode to NoOp and Disconnect.
C28_CommandRoundTrip ==
    LET cmd == local["R"].input
        raw == local["R"].raw
    IN
    /\ pc["R"] \in {"command_test", "command_encoded", "command_decoded"}
    /\ pc["R"] \in {"command_encoded", "command_decoded"} =>
          /\ Len(raw.b) >= 8
          /\ raw.b[1] = TagOf(cmd)
          /\ SubSeq(raw.b, 2, 4) = <<0, 0, 0>>
          /\ SubSeq(raw.b, 5, 8) = BE32(BLen(raw) - 8)
    /\ pc["R"] = "command_decoded" =>
          /\ local["R"].output = cmd
          /\ ret["R"] = Ret("from_bytes", "Ok", "none", cmd)

\* a MessageAck with a 40-byte payload has been encoded into 8 + 21 + 40
\* bytes and decoded back
C28_Witness ==
    /\ pc["R"] = "command_decoded"
    /\ local["R"].input = MessageAck(2, 7, [i \in 1..16 |-> i], 40)
    /\ BLen(local["R"].raw) = 69
    /\ local["R"].output = local["R"].input

(***************************************************************************)
(* SpecLife: the life of a Session through new, initialize,                *)
(* into_transport_mode and clone (sync.rs 43-132).  clone takes &self, so  *)
(* it runs between the calls of the thread that owns the Session, in       *)
(* whatever phase the Session is in.  Rc is the clone of R.                *)
(***************************************************************************)
NoSession ==
    [reader_tcp_stream |-> FALSE, writer_tcp_stream |-> FALSE,
     is_initiator |-> FALSE, handshake_builder |-> FALSE,
     transport_builder |-> FALSE]

InitLife ==
    /\ \E run \in Runs :
          LET new == [h \in Handles |->
                         IF h = "I" THEN Session_new(run.ic, TRUE)
                                    ELSE Session_new(run.rc, FALSE)]
          IN  /\ builder = [s \in Sides |-> new[s].b]
              /\ session = [h \in CHandles |->
                               IF h \in Handles THEN new[h].session ELSE NoSession]
              /\ pc = [h \in CHandles |->
                          CASE h \notin Handles -> "absent"
                            [] h \in Handles /\ new[h].r = "Ok" -> "new"
                            [] OTHER -> "no_session"]
              /\ ret = [h \in CHandles |->
                           CASE h \notin Handles -> Ret("none", "Ok", "none", NoCommand)
                             [] h \in Handles /\ new[h].r = "Ok" ->
                                    Ret("new", "Ok", "none", NoCommand)
                             [] OTHER -> Ret("new", "Err", new[h].r, NoCommand)]
              /\ path = [s \in Sides |-> IF new[s].r = "Ok" THEN <<"Init">> ELSE <<>>]
              /\ clock = run.now
    /\ stream = [d \in {"c2s", "s2c"} |-> [segs |-> <<>>, rd |-> 0]]
    /\ shut = [s \in Sides |-> FALSE]
    /\ local = [h \in CHandles |-> Local0]
    /\ ops = [h \in CHandles |-> 0]
    /\ tampered = 0
    /\ auth_log = [s \in Sides |-> <<>>]
    /\ sent = [s \in Sides |-> <<>>]
    /\ rcvd = [s \in Sides |-> <<>>]
    /\ auth = ClientAuth("kr")
    /\ calls = <<>>

\* let c = h.clone(), sync.rs 43-53.  The stream handles are unwrapped:
\* before initialize() they are None and the calling thread panics.
SessionClone(h, c) ==
    /\ pc[h] \in {"new", "init_ok", "init_err", "transport"}
    /\ pc[c] = "absent"
    /\ IF session[h].reader_tcp_stream /\ session[h].writer_tcp_stream
       THEN /\ session' = [session EXCEPT ![c] = Session_clone(session[h])]
            /\ pc' = [pc EXCEPT ![c] = IF session[h].transport_builder
                                       THEN "transport" ELSE "cloned"]
            /\ ret' = [ret EXCEPT ![c] = Ret("clone", "Ok", "none", NoCommand)]
            /\ UNCHANGED shut
       ELSE /\ pc' = [pc EXCEPT ![h] = "panicked"]
            /\ ret' = [ret EXCEPT ![h] = Ret("clone", "panic", "none", NoCommand)]
            /\ shut' = [shut EXCEPT ![Side(h)] = TRUE]
            /\ UNCHANGED session
    /\ UNCHANGED << builder, stream, local, ops, tampered, path, auth_log,
                    sent, rcvd, clock, auth, calls >>

\* c.into_transport_mode() on a clone taken before the original was
\* converted: self.handshake_builder.take().unwrap() finds None (sync.rs 130)
CloneIntoTransportMode(c) ==
    /\ pc[c] = "cloned"
    /\ ~session[c].handshake_builder
    /\ pc' = [pc EXCEPT ![c] = "panicked"]
    /\ ret' = [ret EXCEPT ![c] = Ret("into_transport_mode", "panic", "none", NoCommand)]
    /\ UNCHANGED << builder, session, stream, shut, local, ops, tampered, path,
                    auth_log, sent, rcvd, clock, auth, calls >>

NextLife ==
    \/ \E h \in Handles : ClientHandshake1(h)
    \/ \E h \in Handles : ClientHandshake2(h)
    \/ \E h \in Handles : ClientHandshake3(h)
    \/ \E h \in Handles : ServerHandshake1(h)
    \/ \E h \in Handles : ServerHandshake2(h)
    \/ \E h \in Handles : ServerHandshake3(h)
    \/ \E h \in Handles : IntoTransportMode(h)
    \/ SessionClone("R", "Rc")
    \/ CloneIntoTransportMode("Rc")

SpecLife == InitLife /\ [][NextLife]_vars

\* the Sessions that exist: constructed, and neither consumed by a failed
\* into_transport_mode nor unwound by a panic
Alive(h) == pc[h] \notin {"absent", "no_session", "dropped", "panicked"}

\* C29: a MessageBuilder holds exactly one of a handshake Noise state and a
\* transport Noise state (the handshake state until into_transport_mode,
\* the transport state afterwards), and every Session obtained through
\* new, initialize, into_transport_mode and clone holds exactly one of
\* handshake_builder and transport_builder.
C29_ExactlyOne ==
    /\ \A s \in Sides :
          IsSome(builder[s]) =>
              /\ IsSome(B(s).handshake_state) # IsSome(B(s).transport_state)
              /\ IsSome(B(s).transport_state) <=> session[s].transport_builder
    /\ \A h \in CHandles :
          Alive(h) => (session[h].handshake_builder # session[h].transport_builder)

\* the authenticator as it was configured: no peer seen yet
Unused(a) == [a EXCEPT !.from_client = FALSE, !.from_mix = FALSE]

\* C30: the peer authenticator is invoked exactly once by a side whose
\* handshake reaches the authentication step and never otherwise: at most
\* one call per side in any run, the authenticator is what one call with
\* the peer's credentials made of it, and once the call has been made no
\* step (send_command, recv_command, finalize_handshake, close among them)
\* makes another call or changes the authenticator, so from_mix and
\* from_client stay as the handshake left them.
C30_AuthenticatedOnce ==
    /\ [](\A s \in Sides :
            /\ Len(auth_log[s]) <= 1
            /\ IsSome(builder[s]) =>
                  /\ IsSome(B(s).peer_credentials) <=> Len(auth_log[s]) = 1
                  /\ ~IsSome(B(s).peer_credentials) =>
                        B(s).authenticator = Unused(B(s).authenticator)
                  /\ IsSome(B(s).peer_credentials) =>
                        /\ B(s).authenticator =
                              is_peer_valid(Unused(B(s).authenticator),
                                            Unwrap(B(s).peer_credentials)).a
                        /\ auth_log[s][1].ok =
                              is_peer_valid(Unused(B(s).authenticator),
                                            Unwrap(B(s).peer_credentials)).ok
                        /\ auth_log[s][1].key = Unwrap(B(s).peer_credentials).public_key)
    /\ [][\A s \in Sides :
            Len(auth_log[s]) = 1 =>
               /\ auth_log'[s] = auth_log[s]
               /\ (IsSome(builder[s]) /\ IsSome(builder'[s])) =>
                     Unwrap(builder'[s]).authenticator = B(s).authenticator]_vars

\* a Provider that took the initiator for a client during the handshake has
\* since sent a command, received one and closed: one call, from_client set
C30_Witness ==
    /\ Len(auth_log["R"]) = 1 /\ Len(auth_log["I"]) = 1
    /\ IsSome(builder["R"])
    /\ B("R").authenticator.variant = "Provider"
    /\ B("R").authenticator.from_client /\ ~B("R").authenticator.from_mix
    /\ ret["R"].op = "close"
    /\ Len(sent["R"]) >= 1 /\ Len(rcvd["I"]) >= 1

(***************************************************************************)
(* SpecApi: the public interface of MessageBuilder used directly           *)
(* (messages.rs 187-386), as message_handshake_test does (messages.rs      *)
(* 479-555), but in any order: a caller builds a builder in either role    *)
(* from a configuration and then calls the handshake operations in any     *)
(* sequence, handing to the received_* operations any message of the       *)
(* right size produced so far, or other bytes.                             *)
(***************************************************************************)
\* op applied to builder b: the Res of the operation
Apply(b, op, message, now, len, overflow_checks) ==
    CASE op = "client_handshake1" -> client_handshake1(b, len)
      [] op = "sent_client_handshake1" -> Res(sent_client_handshake1(b), "Ok", Garbage)
      [] op = "received_server_handshake1" ->
             received_server_handshake1(b, message, now, overflow_checks)
      [] op = "client_handshake2" -> client_handshake2(b, len)
      [] op = "sent_client_handshake2" -> Res(sent_client_handshake2(b), "Ok", Garbage)
      [] op = "received_client_handshake1" ->
             received_client_handshake1(b, message, now, len)
      [] op = "sent_server_handshake1" -> Res(sent_server_handshake1(b), "Ok", Garbage)
      [] op = "received_client_handshake2" -> received_client_handshake2(b, message)

InitApi ==
    /\ \E run \in Runs :
          /\ local = [h \in Handles |->
                         [msg |-> Garbage, tick |-> FALSE,
                          config |-> IF h = "I" THEN run.ic ELSE run.rc]]
          /\ clock = run.now
    /\ builder = [s \in Sides |-> None]
    /\ session = [h \in Handles |-> NoSession]
    /\ pc = [h \in Handles |-> "config"]
    /\ ret = [h \in Handles |-> Ret("none", "Ok", "none", NoCommand)]
    /\ path = [s \in Sides |-> <<>>]
    /\ stream = [d \in {"c2s", "s2c"} |-> [segs |-> <<>>, rd |-> 0]]
    /\ shut = [s \in Sides |-> FALSE]
    /\ ops = [h \in Handles |-> 0]
    /\ tampered = 0
    /\ auth_log = [s \in Sides |-> <<>>]
    /\ sent = [s \in Sides |-> <<>>]
    /\ rcvd = [s \in Sides |-> <<>>]
    /\ auth = ClientAuth("kr")
    /\ calls = <<>>

\* Session::new(config, is_initiator), which is MessageBuilder::new
New(h) ==
    /\ pc[h] = "config"
    /\ \E is_initiator \in BOOLEAN :
         \E n \in {Session_new(local[h].config, is_initiator)} :
            /\ builder' = [builder EXCEPT ![Side(h)] = n.b]
            /\ session' = [session EXCEPT ![h] = n.session]
            /\ pc' = [pc EXCEPT ![h] = IF n.r = "Ok" THEN "new" ELSE "no_session"]
            /\ ret' = [ret EXCEPT ![h] =
                          Ret("new", IF n.r = "Ok" THEN "Ok" ELSE "Err",
                              IF n.r = "Ok" THEN "none" ELSE n.r, NoCommand)]
            /\ path' = [path EXCEPT ![Side(h)] =
                           IF n.r = "Ok" THEN <<"Init">> ELSE <<>>]
    /\ local' = [local EXCEPT ![h].tick = ~local[h].tick]
    /\ UNCHANGED << stream, shut, ops, tampered, auth_log, sent, rcvd, clock,
                    auth, calls >>

\* One call of a handshake operation on the builder of h.  The message
\* argument is a fixed-size array: any message of that size produced so
\* far, or other bytes.  A panic unwinds the caller.
Call(h, op) ==
    /\ pc[h] = "new" /\ IsSome(builder[Side(h)])
    /\ LET b    == B(Side(h))
           \* the position of the Noise pattern at which op writes
           pos  == IF ~IsSome(b.handshake_state) THEN 0
                   ELSE IF op = "received_client_handshake1"
                   THEN Unwrap(b.handshake_state).pos + 1
                   ELSE Unwrap(b.handshake_state).pos
           size == CASE op = "received_client_handshake1" -> NOISE_HANDSHAKE_MESSAGE1_SIZE
                     [] op = "received_server_handshake1" -> NOISE_HANDSHAKE_MESSAGE2_SIZE
                     [] op = "received_client_handshake2" -> NOISE_HANDSHAKE_MESSAGE3_SIZE
                     [] OTHER -> 0
           pool == {Garbage} \cup
                   {m \in UNION {{stream[d].segs[i] : i \in 1..Len(stream[d].segs)} :
                                     d \in {"c2s", "s2c"}} : m.len = size}
           payload == CASE op = "client_handshake1" -> <<>>
                        [] op = "client_handshake2" ->
                               AuthenticateMessage_to_vec(
                                   [ad |-> b.additional_data, unix_time |-> 0]).v
                        [] OTHER ->
                               AuthenticateMessage_to_vec(
                                   [ad |-> b.additional_data,
                                    unix_time |-> clock[Side(h)]]).v
       IN
       \E message \in pool, len \in NoiseWriteLens(pos, payload),
          overflow_checks \in IF op = "received_server_handshake1"
                              THEN BOOLEAN ELSE {FALSE} :
          \E res \in {Apply(b, op, message, clock[Side(h)], len, overflow_checks)} :
             /\ builder' = [builder EXCEPT ![Side(h)] = Some(res.b)]
             /\ auth_log' = [auth_log EXCEPT ![Side(h)] =
                    IF res.b.peer_credentials # b.peer_credentials
                    THEN Append(@, [key |-> Unwrap(res.b.peer_credentials).public_key,
                                    ok  |-> is_peer_valid(b.authenticator,
                                               Unwrap(res.b.peer_credentials)).ok])
                    ELSE @]
             /\ pc' = [pc EXCEPT ![h] = IF res.r = "panic" THEN "panicked" ELSE "new"]
             /\ ret' = [ret EXCEPT ![h] =
                           Ret(op, CASE res.r = "Ok" -> "Ok" [] res.r = "panic" -> "panic"
                                     [] OTHER -> "Err",
                               IF res.r \in {"Ok", "panic"} THEN "none" ELSE res.r,
                               NoCommand)]
             /\ stream' = IF res.r = "Ok" /\ res.out # Garbage
                          THEN Written(Side(h), <<res.out>>) ELSE stream
    /\ local' = [local EXCEPT ![h].tick = ~local[h].tick]
    /\ UNCHANGED << session, shut, ops, tampered, path, sent, rcvd, clock, auth,
                    calls >>

NextApi ==
    \/ \E h \in Handles : New(h)
    \/ \E h \in Handles :
          \E op \in {"client_handshake1", "sent_client_handshake1",
                     "received_server_handshake1", "client_handshake2",
                     "sent_client_handshake2", "received_client_handshake1",
                     "sent_server_handshake1", "received_client_handshake2"} :
             Call(h, op)

SpecApi == InitApi /\ [][NextApi]_vars

\* C31: PeerCredentials are set at most once and read-only afterwards.
\* Once a builder holds peer_credentials, no step (a further handshake
\* call, into_transport_mode, encrypt, decrypt, rekey, the builder's wipe,
\* close) changes their public_key or additional_data; and
\* PeerCredentials::wipe applied to them clears additional_data and keeps
\* public_key.
C31_CredentialsReadOnly ==
    /\ [][\A s \in Sides :
            (IsSome(builder[s]) /\ IsSome(B(s).peer_credentials)) =>
                (IsSome(builder'[s]) =>
                    Unwrap(builder'[s]).peer_credentials = B(s).peer_credentials)]_vars
    /\ [](\A s \in Sides :
            (IsSome(builder[s]) /\ IsSome(B(s).peer_credentials)) =>
                LET c == Unwrap(B(s).peer_credentials) IN
                /\ PeerCredentials_wipe(c).additional_data = <<>>
                /\ PeerCredentials_wipe(c).public_key = c.public_key)

\* the responder has closed its session after sending a command, and
\* still holds the initiator's key and its two bytes of additional data
C31_Witness ==
    /\ IsSome(builder["R"]) /\ IsSome(B("R").transport_state)
    /\ ret["R"].op = "close"
    /\ Len(sent["R"]) >= 1
    /\ B("R").additional_data = <<>>
    /\ IsSome(B("R").peer_credentials)
    /\ Unwrap(B("R").peer_credentials) =
          [additional_data |-> <<7, 9>>, public_key |-> "ki"]

\* C32: the responder's state guards.  received_client_handshake1 called
\* in a state other than Init, and received_client_handshake2 called in a
\* state other than SentServerHandshake1, return InvalidStateError and
\* leave the whole builder as it was: state, Noise handshake state, peer
\* credentials and authenticator.
C32_ResponderGuards ==
    [][\A h \in Handles :
          (local'[h].tick # local[h].tick /\ IsSome(builder[h])) =>
             /\ (ret'[h].op = "received_client_handshake1" /\ B(h).state # "Init") =>
                   /\ ret'[h] = Ret("received_client_handshake1", "Err",
                                    "InvalidStateError", NoCommand)
                   /\ builder'[h] = builder[h]
             /\ (ret'[h].op = "received_client_handshake2"
                   /\ B(h).state # "SentServerHandshake1") =>
                   /\ ret'[h] = Ret("received_client_handshake2", "Err",
                                    "InvalidStateError", NoCommand)
                   /\ builder'[h] = builder[h]]_vars

\* a responder that has accepted the initiator is handed a message 3 again
C32_Witness ==
    /\ IsSome(builder["R"]) /\ ~B("R").is_initiator
    /\ B("R").state = "DataTransfer"
    /\ IsSome(B("R").peer_credentials)
    /\ Unwrap(B("R").handshake_state).pos = 3
    /\ ret["R"] = Ret("received_client_handshake2", "Err", "InvalidStateError",
                      NoCommand)

\* the state in which each initiator-side operation is expected
ExpectedState(op) ==
    CASE op \in {"client_handshake1", "sent_client_handshake1"} -> "Init"
      [] op = "received_server_handshake1" -> "SentClientHandshake1"
      [] op \in {"client_handshake2", "sent_client_handshake2"} ->
             "ReceivedServerHandshake1"
      [] OTHER -> "none"

\* C33: misuse of the initiator-side operations is rejected.  An
\* initiator-side operation called on an initiator's builder in another
\* state than the one it is expected in leaves the builder's state as it
\* was, and an initiator's builder is in state DataTransfer only if its
\* authenticator has accepted the peer.
C33_InitiatorMisuseRejected ==
    /\ [][\A h \in Handles :
            (/\ local'[h].tick # local[h].tick
             /\ IsSome(builder[h]) /\ IsSome(builder'[h])
             /\ B(h).is_initiator
             /\ ExpectedState(ret'[h].op) # "none"
             /\ B(h).state # ExpectedState(ret'[h].op)) =>
                Unwrap(builder'[h]).state = B(h).state]_vars
    /\ [](\A s \in Sides :
            (IsSome(builder[s]) /\ B(s).is_initiator
                                /\ B(s).state = "DataTransfer") =>
                /\ IsSome(B(s).peer_credentials)
                /\ is_peer_valid(Unused(B(s).authenticator),
                                 Unwrap(B(s).peer_credentials)).ok)

(***************************************************************************)
(* SpecForge: SpecClone with a peer that does not keep to the size         *)
(* ceilings.  The peer holds the session's keys (it has completed the      *)
(* handshake) and writes a length frame of its own making: the frame       *)
(* encrypt_message writes first (messages.rs 407-411), with a length the   *)
(* peer chooses and no body behind it.                                     *)
(***************************************************************************)
ForgeLength(h) ==
    /\ pc[h] = "transport" /\ tampered < MaxTamper
    /\ \E n \in {MAX_MSG_LEN + 1, MAC_SIZE - 1} :
         \E w \in {transport_write(Unwrap(TB(h).transport_state), "len",
                                   Raw(BE32(n)))} :
            /\ SetTB(h, [TB(h) EXCEPT !.transport_state = Some(w.ts)])
            /\ stream' = Written(Side(h), <<w.msg>>)
    /\ tampered' = tampered + 1
    /\ UNCHANGED << session, shut, pc, local, ret, ops, path, auth_log, sent,
                    rcvd, clock, auth, calls >>

SpecForge == InitClone /\ [][NextClone \/ ForgeLength("I")]_vars

\* C34: the size ceiling on receive.  recv_command never sets out to read
\* a body longer than MAX_MSG_LEN or shorter than MAC_SIZE: whenever it
\* has decrypted a length frame and is reading (has allocated) the body,
\* the length it reads is within the two limits.
C34_ReceiveCeiling ==
    \A h \in CHandles :
        pc[h] = "recv_body" =>
            /\ local[h].msg <= MAX_MSG_LEN
            /\ local[h].msg >= MAC_SIZE

(***************************************************************************)
(* SpecCreds: SpecLife with a caller that asks a Session for the peer's    *)
(* credentials.                                                            *)
(***************************************************************************)
\* h.peer_credentials(), sync.rs 174-176:
\*   self.handshake_builder.as_ref().unwrap().peer_credentials()
\* and MessageBuilder::peer_credentials, messages.rs 251-253:
\*   self.peer_credentials.as_ref().unwrap()
\* Either unwrap panics on None.  The value returned is kept in local[h].
GetPeerCredentials(h) ==
    /\ pc[h] \in {"new", "init_ok", "init_err", "cloned", "transport"}
    /\ IF /\ session[h].handshake_builder
          /\ IsSome(B(Side(h)).peer_credentials)
       THEN /\ local' = [local EXCEPT ![h].msg = Unwrap(B(Side(h)).peer_credentials)]
            /\ ret' = [ret EXCEPT ![h] = Ret("peer_credentials", "Ok", "none", NoCommand)]
            /\ UNCHANGED << pc, shut >>
       ELSE /\ pc' = [pc EXCEPT ![h] = "panicked"]
            /\ ret' = [ret EXCEPT ![h] = Ret("peer_credentials", "panic", "none", NoCommand)]
            /\ shut' = IF \E o \in CHandles \ {h} :
                             /\ Side(o) = Side(h)
                             /\ pc[o] \notin {"absent", "no_session", "dropped", "panicked"}
                       THEN shut ELSE [shut EXCEPT ![Side(h)] = TRUE]
            /\ UNCHANGED local
    /\ UNCHANGED << builder, session, stream, ops, tampered, path, auth_log,
                    sent, rcvd, clock, auth, calls >>

SpecCreds == InitLife /\ [][NextLife \/ \E h \in CHandles : GetPeerCredentials(h)]_vars

\* C35: after a successful handshake, Session.peer_credentials() returns
\* the credentials established in the handshake in every later state of
\* the session, after into_transport_mode() and on clones too: whenever it
\* has been called on a session whose builder completed the handshake, it
\* returned, and what it returned are the builder's peer credentials.
C35_PeerCredentialsAvailable ==
    \A h \in CHandles :
        ( /\ ret[h].op = "peer_credentials"
          /\ IsSome(builder[Side(h)])
          /\ B(Side(h)).state = "DataTransfer"
          /\ IsSome(B(Side(h)).peer_credentials) )
        => /\ ret[h].r = "Ok"
           /\ local[h].msg = Unwrap(B(Side(h)).peer_credentials)

\* C36: creating an initiator builder or Session with peer_public_key
\* absent fails with NoPeerKeyError and yields no builder; creating a
\* responder with peer_public_key absent succeeds; every builder created
\* starts in state Init with clock_skew 0, no peer credentials, a
\* handshake state and no transport state.
C36_Construction ==
    [][ \A h \in Handles :
          (pc[h] = "config" /\ pc'[h] # "config") =>
             LET keyless == local[h].config.peer_public_key = "none"
                 as_initiator == session'[h].is_initiator
                 made == builder'[Side(h)]
             IN  /\ (as_initiator /\ keyless) =>
                       /\ ret'[h] = Ret("new", "Err", "NoPeerKeyError", NoCommand)
                       /\ made = None
                       /\ ~session'[h].handshake_builder
                 /\ (~as_initiator /\ keyless) =>
                       /\ ret'[h] = Ret("new", "Ok", "none", NoCommand)
                       /\ IsSome(made)
                 /\ IsSome(made) =>
                       /\ Unwrap(made).state = "Init"
                       /\ Unwrap(made).clock_skew = U32Of(0)
                       /\ Unwrap(made).peer_credentials = None
                       /\ IsSome(Unwrap(made).handshake_state)
                       /\ Unwrap(made).transport_state = None
                       /\ Unwrap(made).is_initiator = as_initiator ]_vars

\* an initiator without the peer's key was refused and a responder without
\* it was created
C36_Witness ==
    /\ pc["I"] = "no_session" /\ builder["I"] = None
    /\ local["I"].config.peer_public_key = "none"
    /\ ret["I"] = Ret("new", "Err", "NoPeerKeyError", NoCommand)
    /\ pc["R"] = "new" /\ ret["R"] = Ret("new", "Ok", "none", NoCommand)
    /\ local["R"].config.peer_public_key = "none"
    /\ ~session["R"].is_initiator
    /\ IsSome(builder["R"]) /\ B("R").state = "Init"
====
